---- MODULE Spec2Model ----
(***************************************************************************)
(* Local joint submodel synthesizer of FEM_model (local_model/*.py and the *)
(* steps 20-26 of main.py), as a state machine over the stored model file. *)
(*                                                                         *)
(* Lengths are kept as integers in HALF units (every coordinate below is   *)
(* twice the coordinate of the program), so that the B/2 and tf/2 shifts   *)
(* of the mid-plane nodes stay integral.                                   *)
(*                                                                         *)
(* The model database is a finite map  node id -> <<x, y, z>>; the total   *)
(* of an entity kind is the number of entities of that kind, and writing   *)
(* a node number creates that node or overwrites it.  Whether the library  *)
(* keeps the node numbers compact, and whether it accepts a plate that     *)
(* names a node twice, is left open (cfg.compact, strict).                 *)
(*                                                                         *)
(* Every St7 call of an operation is recorded in the order the code makes  *)
(* it; one call per operation may be made to return an error code.  The    *)
(* geometric work the library does inside a call (cutting plates, merging  *)
(* nodes, tessellating and meshing faces) is not computed: such a call     *)
(* changes the counts of plates and faces the code reads back, nothing     *)
(* else.                                                                   *)
(***************************************************************************)
EXTENDS Integers, Sequences, FiniteSets, TLC

VARIABLES
    nodes,      \* stored model file: node id -> <<x, y, z>>
    plates,     \* stored model file: plate id -> [prop, conn]
    clusters,   \* stored model file: set of rigid link clusters
    faces,      \* stored model file: number of geometry faces
    meshed,     \* stored model file: number of faces the automesh meshed
    res_nodes,  \* last value returned by create_midplane_nodes_for_members
    last,       \* what the last operation did (see NoOp)
    log,        \* St7 API calls of the last operation, in order
    calls,      \* number of operations called so far by the caller
    pc,         \* position of main.py (steps 20..27), "api" for a direct caller
    trace,      \* main.py: the steps run so far, in order (see Did)
    faulty,     \* number of operations in which an API call was made to fail
    cfg,        \* inputs of the run (joint geometry, sections, properties)
    cases,      \* stored model file: the freedom cases, numbered from 1
    st7api      \* optional functions the St7API module of the run provides

vars == <<nodes, plates, clusters, faces, meshed, res_nodes, last, log, calls, pc, trace, faulty, cfg,
          cases, st7api>>

----------------------------------------------------------------------------
(* Bounds of the model *)

\* a direct caller makes at most MaxCalls operation calls
MaxCalls == 2
\* an injected API failure hits the 1st .. MaxNth-th call of one call site
MaxNth == 2
\* API failures are injected in at most MaxFaulty operations of a run
MaxFaulty == 1

----------------------------------------------------------------------------
(* Small helpers *)

Min(S) == CHOOSE m \in S : \A k \in S : m <= k
Max(S) == CHOOSE m \in S : \A k \in S : m >= k
Abs(v) == IF v < 0 THEN -v ELSE v
Range(s) == {s[i] : i \in 1..Len(s)}
EmptyMap == [k \in {} |-> 0]
\* dict.get(k, {}) of Python
Get(d, k) == IF k \in DOMAIN d THEN d[k] ELSE EmptyMap
\* truthiness of a dict or a list
Truthy(d) == DOMAIN d # {}
\* a local variable of Python: F applied to the value of v, computed once
Bind(v, F(_)) == CHOOSE r \in {F(x) : x \in {v}} : TRUE

----------------------------------------------------------------------------
(* The St7 session of one operation: Init -> OpenFile -> body -> CloseFile  *)
(* -> Release, with at most one injected failure of an API call.            *)

NoFault == [site |-> "none", nth |-> 0]
\* the faults that can hit an operation that calls the sites of once one
\* time and the sites of many several times
FaultsAt(once, many) ==
    {NoFault} \cup [site : once, nth : {1}] \cup [site : many, nth : 1..MaxNth]

\* index of the call of plan that the fault makes fail, 0 if none
FailIndex(plan, fault) ==
    LET hit == {i \in 1..Len(plan) :
                   /\ plan[i] = fault.site
                   /\ Cardinality({j \in 1..i : plan[j] = fault.site}) = fault.nth}
    IN IF hit = {} THEN 0 ELSE CHOOSE i \in hit : TRUE

\* _ck: a non-zero code raises; the calls after the failing one are not made
Executed(plan, k) ==
    IF k = 0 THEN [i \in 1..Len(plan) |-> [api |-> plan[i], ok |-> TRUE]]
    ELSE [i \in 1..k |-> [api |-> plan[i], ok |-> (i < k)]]

\* the calls of api in lg that returned 0
NrOk(lg, api) == Cardinality({i \in 1..Len(lg) : lg[i].api = api /\ lg[i].ok})

\* the session closed and released on the normal path only
FinallyOnSuccess(bodyLog, fault, close) ==
    IF \E i \in 1..Len(bodyLog) : ~bodyLog[i].ok THEN bodyLog
    ELSE bodyLog \o <<[api |-> "CloseFile", ok |-> TRUE], [api |-> "Release", ok |-> TRUE]>>

\* try: ... finally: try: _ck(CloseFile) finally: Release()
\* (Init is called before the try: when it fails nothing else is called)
Finally(bodyLog, fault, close) ==
    IF Len(bodyLog) = 1 /\ ~bodyLog[1].ok THEN bodyLog
    ELSE bodyLog
         \o (IF close
             THEN <<[api |-> "CloseFile",
                     ok |-> ~(fault.site = "CloseFile" /\ fault.nth = 1)]>>
             ELSE <<>>)
         \o <<[api |-> "Release", ok |-> TRUE]>>

Raised(lg) == \E i \in 1..Len(lg) : ~lg[i].ok
\* variant: the file counts as stored once St7SaveFile was called
SavedInAttempted(lg) == \E i \in 1..Len(lg) : lg[i].api = "SaveFile"
SavedIn(lg) == \E i \in 1..Len(lg) : lg[i].api = "SaveFile" /\ lg[i].ok

----------------------------------------------------------------------------
(* Model database wrappers *)

\* St7GetTotal(tyNODE)
GetTotalNodes(db) == Cardinality(DOMAIN db)

\* St7SetNodeUCS(node_num, xyz): creates or overwrites node node_num
NewNode(db, xyz, node_num) ==
    [i \in DOMAIN db \cup {node_num} |-> IF i = node_num THEN xyz ELSE db[i]]

\* St7GetTotal(tyPLATE)
GetTotalElements(pl) == Cardinality(DOMAIN pl)

----------------------------------------------------------------------------
(* Section geometry (half units) *)

Labels == <<"web_bot", "web_top", "top_left", "top_right", "bot_left", "bot_right">>
LabelSet == Range(Labels)
LabelIdx(lab) == CHOOSE i \in 1..6 : Labels[i] = lab

AxisIdx(a) == CASE a = "x" -> 1 [] a = "y" -> 2 [] a = "z" -> 3

\* the distances taken to the inner faces of the flanges
CentroidToInnerFaces(d) == <<d.D - 2 * d.tf2, d.D - 2 * d.tf1>>

\* distances centroid -> outer fibres, <<top, bottom>>, both doubled
CalculateCentroidDistances(d) ==
    LET A1 == d.B1 * d.tf1
        hw == d.D - d.tf1 - d.tf2
        Aw == hw * d.tw
        A2 == d.B2 * d.tf2
        Atot == A1 + Aw + A2
        \* 2*(A1*y1 + Aw*yw + A2*y2) with y1 = tf1/2, yw = tf1 + hw/2, y2 = D - tf2/2
        num2 == A1 * d.tf1 + Aw * (2 * d.tf1 + hw) + A2 * (2 * d.D - d.tf2)
    IN IF Atot = 0 THEN <<d.D, d.D>>
       ELSE <<2 * d.D - (num2 \div Atot), num2 \div Atot>>

\* the six nodes with the web ends on the outer skin of the flanges
SixNodesOuterSkin(p, depth_axis, width_axis, top2, bot2, d) ==
    LET di == AxisIdx(depth_axis)
        wi == AxisIdx(width_axis)
        wb == [p EXCEPT ![di] = @ - bot2]
        wt == [p EXCEPT ![di] = @ + top2]
    IN [lab \in LabelSet |->
          CASE lab = "web_bot"   -> wb
            [] lab = "web_top"   -> wt
            [] lab = "top_left"  -> [wt EXCEPT ![wi] = @ - d.B2]
            [] lab = "top_right" -> [wt EXCEPT ![wi] = @ + d.B2]
            [] lab = "bot_left"  -> [wb EXCEPT ![wi] = @ - d.B1]
            [] lab = "bot_right" -> [wb EXCEPT ![wi] = @ + d.B1]]

\* _six_nodes_from_centroid_axes(x0, y0, z0, depth_axis, width_axis, top, bot,
\* tf1, tf2, B1, B2): p and the result in half units, top2 and bot2 doubled
SixNodesFromCentroidAxes(p, depth_axis, width_axis, top2, bot2, d) ==
    LET di == AxisIdx(depth_axis)
        wi == AxisIdx(width_axis)
        d_bot == p[di] - (bot2 - d.tf1)
        d_top == p[di] + (top2 - d.tf2)
        wb == [p EXCEPT ![di] = d_bot]
        wt == [p EXCEPT ![di] = d_top]
    IN [lab \in LabelSet |->
          CASE lab = "web_bot"   -> wb
            [] lab = "web_top"   -> wt
            [] lab = "top_left"  -> [wt EXCEPT ![wi] = @ - d.B2]
            [] lab = "top_right" -> [wt EXCEPT ![wi] = @ + d.B2]
            [] lab = "bot_left"  -> [wb EXCEPT ![wi] = @ - d.B1]
            [] lab = "bot_right" -> [wb EXCEPT ![wi] = @ + d.B1]]

\* the copy with the target written to the x coordinate
CopyPointsSetAlongYasX(pts, y_target) ==
    [k \in DOMAIN pts |-> <<y_target, pts[k][2], pts[k][3]>>]

\* _copy_points_set_along_Y / _X: y_target and x_target are floats, which
\* float() returns unchanged
CopyPointsSetAlongY(pts, y_target) ==
    [k \in DOMAIN pts |-> <<pts[k][1], y_target, pts[k][3]>>]

CopyPointsSetAlongX(pts, x_target) ==
    [k \in DOMAIN pts |-> <<x_target, pts[k][2], pts[k][3]>>]

----------------------------------------------------------------------------
(* local_model/create_file.py: the new local model of step 16 *)

\* nodes of the node list that keep their own number
Kept(nl, keep_ids, i) == keep_ids /\ nl[i].id # 0

\* next_num after the first i entries of the node list
NextNumAfter(nl, keep_ids, i) ==
    1 + Cardinality({j \in 1..i : ~Kept(nl, keep_ids, j)})

BaseNum(nl, keep_ids, i) ==
    IF Kept(nl, keep_ids, i) THEN nl[i].id ELSE NextNumAfter(nl, keep_ids, i - 1)

\* mid point of centre and peripheral node (n_intermediate = 1, t = 1/2)
LinspaceMid(p0, p1) == [k \in 1..3 |-> (p0[k] + p1[k]) \div 2]

RECURSIVE SetNodes(_, _, _, _)
\* St7SetNodeXYZ for nums[i..], in order
SetNodes(db, nums, pts, i) ==
    IF i > Len(nums) THEN db
    ELSE SetNodes(NewNode(db, pts[i], nums[i]), nums, pts, i + 1)

\* nl: <<centre, peripheral 1..3>>, each [id, xyz]; center_index = 0
CreateSt7WithNodes(nl, keep_ids) ==
    LET base == [i \in 1..Len(nl) |-> BaseNum(nl, keep_ids, i)]
        next_num == NextNumAfter(nl, keep_ids, Len(nl))
        mids == [b \in 1..3 |-> next_num + b - 1]
        midpts == [b \in 1..3 |-> LinspaceMid(nl[1].xyz, nl[b + 1].xyz)]
        db1 == SetNodes(EmptyMap, base, [i \in 1..Len(nl) |-> nl[i].xyz], 1)
        db2 == SetNodes(db1, mids, midpts, 1)
    IN [db |-> db2,
        base_node_ids |-> base,
        intermediate_ids_by_branch |-> [b \in 1..3 |-> <<mids[b]>>]]

----------------------------------------------------------------------------
(* local_model/plate_geometry.py: create_midplane_nodes_for_members *)

\* a numbering that gives the sixth label the number of the first
IdsMapWrapped(next_id) == [lab \in LabelSet |-> next_id + ((LabelIdx(lab) - 1) % 5)]

IdsMap(next_id) == [lab \in LabelSet |-> next_id + LabelIdx(lab) - 1]

RECURSIVE NewSix(_, _, _, _)
\* {lab: _new_node(uID, P, next_id + i) for i, (lab, P) in enumerate(pts.items())}
NewSix(db, pts, next_id, i) ==
    IF i > 6 THEN db
    ELSE Bind(NewNode(db, pts[Labels[i]], next_id + i - 1),
              LAMBDA d : NewSix(d, pts, next_id, i + 1))

NoGroup == [flangia_sx |-> <<>>, flangia_dx |-> <<>>, anima |-> <<>>]
NoBeamGroup == [flangia_sup |-> <<>>, flangia_inf |-> <<>>, anima |-> <<>>]

\* target["flangia_sx"].extend([top_left, bot_left]) ...
ExtendCol(g, m) ==
    [flangia_sx |-> g.flangia_sx \o <<m["top_left"], m["bot_left"]>>,
     flangia_dx |-> g.flangia_dx \o <<m["top_right"], m["bot_right"]>>,
     anima      |-> g.anima \o <<m["web_top"], m["web_bot"]>>]

ExtendBeam(g, m) ==
    [flangia_sup |-> g.flangia_sup \o <<m["top_left"], m["top_right"]>>,
     flangia_inf |-> g.flangia_inf \o <<m["bot_left"], m["bot_right"]>>,
     anima       |-> g.anima \o <<m["web_top"], m["web_bot"]>>]

\* the lower column node among col_intermediate_ids (0 stands for None)
ColLowerId(col_ids, col_upper) ==
    LET others == {i \in 1..Len(col_ids) : col_ids[i] # col_upper}
        first == IF col_upper # 0
                 THEN (IF others = {} THEN 0 ELSE col_ids[Min(others)])
                 ELSE (IF Len(col_ids) = 1 THEN col_ids[1] ELSE 0)
    IN IF first = 0 /\ Len(col_ids) > 0 THEN col_ids[1] ELSE first

RECURSIVE GenBeams(_, _, _, _)
\* ---- Travi ----  st = [db, next, grp, coords, yvals, ids]
GenBeams(st, beam_ids, d, i) ==
    IF i > Len(beam_ids) THEN st
    ELSE LET cd == CalculateCentroidDistances(d)
             m == IdsMap(st.next)
         IN Bind(SixNodesFromCentroidAxes(st.db[beam_ids[i]], "y", "z", cd[1], cd[2], d),
                 LAMBDA pts :
                    Bind([db |-> NewSix(st.db, pts, st.next, 1),
                          next |-> st.next + 6,
                          grp |-> ExtendBeam(st.grp, m),
                          coords |-> pts,
                          yvals |-> st.yvals \cup {pts[l][2] : l \in LabelSet},
                          ids |-> st.ids \o [k \in 1..6 |-> st.next + k - 1]],
                         LAMBDA nx : GenBeams(nx, beam_ids, d, i + 1)))

\* the copies of the lower column station at the levels of the beam
ColCopies(db0, base, n1, ylev, copy) ==
    IF ~copy THEN [db |-> db0, next |-> n1]
    ELSE Bind(NewSix(db0, CopyPointsSetAlongY(base, ylev.ymin), n1, 1),
              LAMBDA db1 :
                 [db |-> NewSix(db1, CopyPointsSetAlongY(base, ylev.ymax), n1 + 6, 1),
                  next |-> n1 + 12])

RECURSIVE GenCols(_, _, _, _, _, _, _)
\* ---- Colonne ----  st = [db, next, inf, min, max, sup, ids]
GenCols(st, col_ids, col_upper, col_lower, ylev, d, i) ==
    IF i > Len(col_ids) THEN st
    ELSE LET nid == col_ids[i]
             cd == CalculateCentroidDistances(d)
             n0 == st.next
             n1 == n0 + 6
             copy == (nid = col_lower) /\ ylev.hasBeam
         IN Bind(SixNodesFromCentroidAxes(st.db[nid], "x", "z", cd[1], cd[2], d),
                 LAMBDA base :
                    Bind(NewSix(st.db, base, n0, 1),
                         LAMBDA db0 :
                            Bind(ColCopies(db0, base, n1, ylev, copy),
                                 LAMBDA cp :
    Bind([db |-> cp.db,
          next |-> cp.next,
          inf |-> IF nid = col_upper THEN st.inf ELSE ExtendCol(st.inf, IdsMap(n0)),
          sup |-> IF nid = col_upper THEN ExtendCol(st.sup, IdsMap(n0)) ELSE st.sup,
          min |-> IF copy THEN ExtendCol(st.min, IdsMap(n1)) ELSE st.min,
          max |-> IF copy THEN ExtendCol(st.max, IdsMap(n1 + 6)) ELSE st.max,
          ids |-> st.ids \o [k \in 1..(cp.next - n0) |-> n0 + k - 1]],
         LAMBDA nx : GenCols(nx, col_ids, col_upper, col_lower, ylev, d, i + 1)))))

\* a defaultdict(list) turned into a dict: only the keys that were extended
AsDict(g) == [k \in {k \in DOMAIN g : g[k] # <<>>} |-> g[k]]

\* the work of create_midplane_nodes_for_members between OpenFile and SaveFile
\* a = [beam_ids, col_ids, col_upper]; returns the session's database, the
\* returned dict (groups, _beam_node_coords) and the node numbers written
MidplaneNodes(db, a, beam_dims, col_dims) ==
    Bind(GenBeams([db |-> db, next |-> GetTotalNodes(db) + 1, grp |-> NoBeamGroup,
                   coords |-> EmptyMap, yvals |-> {}, ids |-> <<>>],
                  a.beam_ids, beam_dims, 1),
         LAMBDA b :
    Bind([hasBeam |-> b.yvals # {},
          ymin |-> IF b.yvals = {} THEN 0 ELSE Min(b.yvals),
          ymax |-> IF b.yvals = {} THEN 0 ELSE Max(b.yvals)],
         LAMBDA ylev :
    Bind(GenCols([db |-> b.db, next |-> b.next, inf |-> NoGroup, min |-> NoGroup,
                  max |-> NoGroup, sup |-> NoGroup, ids |-> <<>>],
                 a.col_ids, a.col_upper, ColLowerId(a.col_ids, a.col_upper),
                 ylev, col_dims, 1),
         LAMBDA c :
    Bind([beam_nodes |-> AsDict(b.grp),
          col_inf_nodes_base |-> AsDict(c.inf),
          col_inf_nodes_yBeamMin |-> AsDict(c.min),
          col_inf_nodes_yBeamMax |-> AsDict(c.max),
          col_sup_nodes_base |-> AsDict(c.sup)],
         LAMBDA all :
            \* if not out[key] and key.startswith("col_inf_nodes_y"): del out[key]
            LET keep == {k \in DOMAIN all :
                            ~(k \in {"col_inf_nodes_yBeamMin", "col_inf_nodes_yBeamMax"}
                              /\ ~Truthy(all[k]))}
            IN [db |-> c.db,
                ids |-> b.ids \o c.ids,
                ret |-> [groups |-> [k \in keep |-> all[k]], coords |-> b.coords]]))))

\* the API calls of create_midplane_nodes_for_members when none fails
MidplanePlan(a) ==
    LET low == ColLowerId(a.col_ids, a.col_upper)
        six == [k \in 1..6 |-> "SetNodeUCS"]
        beam == [i \in 1..(7 * Len(a.beam_ids)) |->
                    IF i % 7 = 1 THEN "GetNodeXYZ" ELSE "SetNodeUCS"]
        col(i) == <<"GetNodeXYZ">> \o six
                  \o (IF a.col_ids[i] = low /\ Len(a.beam_ids) > 0 THEN six \o six ELSE <<>>)
        cols == IF Len(a.col_ids) = 0 THEN <<>>
                ELSE IF Len(a.col_ids) = 1 THEN col(1)
                ELSE col(1) \o col(2)
    IN <<"Init", "OpenFile", "GetTotal">>
       \o beam
       \o (IF a.col_upper # 0 THEN <<"GetNodeXYZ">> ELSE <<>>)
       \o cols
       \o <<"SaveFile">>

----------------------------------------------------------------------------
(* local_model/plate_geometry.py: create_plates_for_joint *)

GroupKeys == {"flangia_sx", "flangia_dx", "anima"}
BeamKeys == {"flangia_sup", "flangia_inf", "anima"}

\* if not beam_nodes_orig_ids or not beam_nodes_orig_coords or not col_inf_base ...
GroupsMissing(r) ==
    \/ ~Truthy(Get(r.groups, "beam_nodes"))
    \/ ~Truthy(r.coords)
    \/ ~Truthy(Get(r.groups, "col_inf_nodes_base"))
    \/ ~Truthy(Get(r.groups, "col_inf_nodes_yBeamMin"))
    \/ ~Truthy(Get(r.groups, "col_inf_nodes_yBeamMax"))
    \/ ~Truthy(Get(r.groups, "col_sup_nodes_base"))

\* col_inf_max.get("flangia_sx") is a non-empty list
HasFlangiaSx(r) ==
    LET g == Get(r.groups, "col_inf_nodes_yBeamMax")
    IN "flangia_sx" \in DOMAIN g /\ g["flangia_sx"] # <<>>

\* col_inf_max["flangia_sx"][1] does not raise IndexError
HasSxNode(r) == Len(r.groups["col_inf_nodes_yBeamMax"]["flangia_sx"]) >= 2

\* an extraction that looks at the flanges only and finds a missing web
\* node when its plate is built
LabelsPresentFlanges(r) ==
    /\ \A g \in {"col_inf_nodes_base", "col_inf_nodes_yBeamMin",
                 "col_inf_nodes_yBeamMax", "col_sup_nodes_base"} :
          \A k \in {"flangia_sx", "flangia_dx"} :
             k \in DOMAIN r.groups[g] /\ Len(r.groups[g][k]) >= 2
    /\ LabelSet \subseteq DOMAIN r.coords

\* every g[key][0], g[key][1] and copied_beam_node_ids[label] of the
\* "NODI ESTRATTI" block exists (no KeyError, no IndexError)
LabelsPresent(r) ==
    /\ \A g \in {"col_inf_nodes_base", "col_inf_nodes_yBeamMin",
                 "col_inf_nodes_yBeamMax", "col_sup_nodes_base"} :
          \A k \in GroupKeys :
             k \in DOMAIN r.groups[g] /\ Len(r.groups[g][k]) >= 2
    /\ \A k \in BeamKeys :
          k \in DOMAIN r.groups["beam_nodes"] /\ Len(r.groups["beam_nodes"][k]) >= 2
    /\ LabelSet \subseteq DOMAIN r.coords

\* the labels of _beam_node_coords in dict order
CoordLabels(r) == SelectSeq(Labels, LAMBDA l : l \in DOMAIN r.coords)

RECURSIVE CopyBeamNodes(_, _, _, _, _)
\* copied_beam_node_ids[label] = _new_node(uID, coords, next_node_id); next_node_id += 1
CopyBeamNodes(db, labs, pts, next_node_id, i) ==
    IF i > Len(labs) THEN db
    ELSE CopyBeamNodes(NewNode(db, pts[labs[i]], next_node_id + i - 1),
                       labs, pts, next_node_id, i + 1)

\* g[k][i - 1] of Python; 0 where Python raises KeyError or IndexError, which
\* LabelsPresent accounts for
Nth(g, k, i) == IF k \in DOMAIN g /\ i <= Len(g[k]) THEN g[k][i] ELSE 0

\* node numbers of one column station: g["anima"] = [web_top, web_bot],
\* g["flangia_sx"] = [top_left, bot_left], g["flangia_dx"] = [top_right, bot_right]
ColSt(g) == [wb |-> Nth(g, "anima", 2), wt |-> Nth(g, "anima", 1),
             tl |-> Nth(g, "flangia_sx", 1), bl |-> Nth(g, "flangia_sx", 2),
             tr |-> Nth(g, "flangia_dx", 1), br |-> Nth(g, "flangia_dx", 2)]

BeamSt(g) == [wb |-> Nth(g, "anima", 2), wt |-> Nth(g, "anima", 1),
              tl |-> Nth(g, "flangia_sup", 1), tr |-> Nth(g, "flangia_sup", 2),
              bl |-> Nth(g, "flangia_inf", 1), br |-> Nth(g, "flangia_inf", 2)]

\* copied_beam_node_ids[label]; 0 where Python raises KeyError
Copied(copied, label) == IF label \in DOMAIN copied THEN copied[label] ELSE 0

Plate(prop, n1, n2, n3, n4) == [prop |-> prop, conn |-> <<n1, n2, n3, n4>>]

\* a column segment that closes the section with four plates only
ColumnSegmentFour(p_web, a, b) ==
    <<Plate(p_web, a.wb, a.wt, b.wt, b.wb),
      Plate("tf1_sez.colonna", a.wb, a.bl, b.bl, b.wb),
      Plate("tf2_sez.colonna", a.wt, a.tl, b.tl, b.wt),
      Plate("tf1_sez.colonna", a.wb, a.br, b.br, b.wb)>>

\* web and the four half flanges between two column stations a (below), b (above)
ColumnSegment(p_web, a, b) ==
    <<Plate(p_web, a.wb, a.wt, b.wt, b.wb),
      Plate("tf1_sez.colonna", a.wb, a.bl, b.bl, b.wb),
      Plate("tf2_sez.colonna", a.wt, a.tl, b.tl, b.wt),
      Plate("tf1_sez.colonna", a.wb, a.br, b.br, b.wb),
      Plate("tf2_sez.colonna", a.wt, a.tr, b.tr, b.wt)>>

BeamSegment(bn, bnc) ==
    <<Plate("tw_sez.trave", bn.wb, bn.wt, bnc.wt, bnc.wb),
      Plate("tf1_sez.trave", bn.bl, bn.br, bnc.br, bnc.bl),
      Plate("tf2_sez.trave", bn.tl, bn.tr, bnc.tr, bnc.tl)>>

\* stiffeners at the yBeamMin station only
GussetsAtMin(cim, cia) ==
    <<Plate("t_fazzoletti", cim.bl, cim.wb, cim.wt, cim.tl),
      Plate("t_fazzoletti", cim.wb, cim.br, cim.tr, cim.wt)>>

Gussets(cim, cia) ==
    <<Plate("t_fazzoletti", cim.bl, cim.wb, cim.wt, cim.tl),
      Plate("t_fazzoletti", cim.wb, cim.br, cim.tr, cim.wt),
      Plate("t_fazzoletti", cia.bl, cia.wb, cia.wt, cia.tl),
      Plate("t_fazzoletti", cia.wb, cia.br, cia.tr, cia.wt)>>

\* plates_to_create; copied: label -> node number of the copied beam station
PlatesToCreate(r, copied, props) ==
    LET cib == ColSt(r.groups["col_inf_nodes_base"])
        cim == ColSt(r.groups["col_inf_nodes_yBeamMin"])
        cia == ColSt(r.groups["col_inf_nodes_yBeamMax"])
        csb == ColSt(r.groups["col_sup_nodes_base"])
        bn == BeamSt(r.groups["beam_nodes"])
        bnc == [wb |-> Copied(copied, "web_bot"), wt |-> Copied(copied, "web_top"),
                tl |-> Copied(copied, "top_left"), tr |-> Copied(copied, "top_right"),
                bl |-> Copied(copied, "bot_left"), br |-> Copied(copied, "bot_right")]
    IN ColumnSegment("tw_sez.colonna", cib, cim)
       \o ColumnSegment("t_panel.modale", cim, cia)
       \o ColumnSegment("tw_sez.colonna", cia, csb)
       \o BeamSegment(bn, bnc)
       \o (IF "t_fazzoletti" \in props THEN Gussets(cim, cia) ELSE <<>>)

\* a loop in which every attempt takes the next id, refused or not
CreationLoopConsuming(queue, first_id, bad) ==
    [i \in 1..Len(queue) |->
        [id |-> first_id + i - 1,
         prop |-> queue[i].prop, conn |-> queue[i].conn, ok |-> (i \notin bad)]]

\* the creation loop: plate i of the queue is attempted with the id
\* next_plate_id, which advances only when St7SetElementConnection succeeds;
\* bad = the attempts that the API refuses
CreationLoop(queue, first_id, bad) ==
    [i \in 1..Len(queue) |->
        [id |-> first_id + Cardinality((1..(i - 1)) \ bad),
         prop |-> queue[i].prop, conn |-> queue[i].conn, ok |-> (i \notin bad)]]

\* St7SetElementConnection(tyPLATE, id, prop, conn) for the attempts that succeed
RECURSIVE NewPlates(_, _, _)
NewPlates(pl, done, i) ==
    IF i > Len(done) THEN pl
    ELSE NewPlates(IF done[i].ok
                   THEN [e \in DOMAIN pl \cup {done[i].id} |->
                            IF e = done[i].id
                            THEN [prop |-> done[i].prop, conn |-> done[i].conn]
                            ELSE pl[e]]
                   ELSE pl,
                   done, i + 1)

RECURSIVE CreatedCount(_, _)
\* created_count += 1 after each St7SetElementConnection that returned
CreatedCount(done, i) ==
    IF i > Len(done) THEN 0
    ELSE (IF done[i].ok THEN 1 ELSE 0) + CreatedCount(done, i + 1)

PropsRequired == {"tw_sez.trave", "tf1_sez.trave", "tf2_sez.trave", "tw_sez.colonna",
              "tf1_sez.colonna", "tf2_sez.colonna", "t_panel.modale"}

\* create_plates_for_joint(model_path, r, props) on the file (db, pl):
\* [lg, raised, saved, db, pl, ids, queued, done, created_count, printed].  Whether the library
\* accepts a plate that names a node twice is not decided by the program:
\* strict tells whether it refuses such a connection
PlatesForJoint(db, pl, r, props, fault, strict) ==
    LET head == <<"Init", "OpenFile", "GetTotal", "GetTotal">>
        next_plate_id == GetTotalElements(pl) + 1
        next_node_id == GetTotalNodes(db) + 1
        propsOk == PropsRequired \subseteq props
        stageA == propsOk /\ ~GroupsMissing(r)
        stageB == stageA /\ HasFlangiaSx(r) /\ HasSxNode(r)
        sx == r.groups["col_inf_nodes_yBeamMax"]["flangia_sx"][2]
        labs == CoordLabels(r)
        \* API calls before the creation loop, as far as no Python error stops them
        pre == head \o (IF stageB THEN <<"GetNodeXYZ">> ELSE <<>>)
                    \o (IF stageB /\ sx \in DOMAIN db
                        THEN [i \in 1..Len(labs) |-> "SetNodeUCS"] ELSE <<>>)
        kf == FailIndex(pre, fault)
        \* St7GetNodeXYZ of a node that is not in the model fails
        kd == IF stageB /\ sx \notin DOMAIN db THEN 5 ELSE 0
        k == IF kf # 0 THEN kf ELSE kd
        stageC == stageB /\ k = 0 /\ LabelsPresent(r)
        target_x == db[sx][1]
        copiedPts == CopyPointsSetAlongX(r.coords, target_x)
        db1 == CopyBeamNodes(db, labs, copiedPts, next_node_id, 1)
        copied == [l \in DOMAIN r.coords |->
                      next_node_id + (CHOOSE i \in 1..Len(labs) : labs[i] = l) - 1]
        queue == PlatesToCreate(r, copied, props)
        \* if len(node_ids_ccw) != 4: continue
        tried == SelectSeq(queue, LAMBDA q : Len(q.conn) = 4)
        loopPlan == [i \in 1..Len(tried) |-> "SetElementConnection"]
        tailPlan == <<"SaveFile", "GetTotal">>
        kAll == FailIndex(pre \o loopPlan \o tailPlan, fault)
        bad == {i \in 1..Len(tried) : kAll = Len(pre) + i}
               \cup {i \in 1..Len(tried) :
                        strict /\ Cardinality(Range(tried[i].conn)) < 4}
        kTail == IF kAll > Len(pre) + Len(tried) THEN kAll - Len(pre) - Len(tried) ELSE 0
        done == CreationLoop(tried, next_plate_id, bad)
        body == IF ~stageC THEN Executed(pre, k)
                ELSE Executed(pre, 0)
                     \o [i \in 1..Len(done) |-> [api |-> "SetElementConnection", ok |-> done[i].ok]]
                     \o Executed(tailPlan, kTail)
        lg == Finally(body, fault, TRUE)
        \* a failed St7SetElementConnection is caught in the loop, any other failure raises
        raised == ~stageC \/ \E i \in 1..Len(lg) : ~lg[i].ok /\ lg[i].api # "SetElementConnection"
    IN [lg |-> lg,
        raised |-> raised,
        saved |-> SavedIn(lg),
        db |-> IF SavedIn(lg) THEN db1 ELSE db,
        pl |-> IF SavedIn(lg) THEN NewPlates(pl, done, 1) ELSE pl,
        ids |-> IF stageB /\ k = 0
                THEN [i \in 1..Len(labs) |-> next_node_id + i - 1]
                ELSE IF stageB /\ k > 5 THEN [i \in 1..(k - 6) |-> next_node_id + i - 1]
                ELSE <<>>,
        queued |-> IF stageC THEN queue ELSE <<>>,
        done |-> IF stageC THEN done ELSE <<>>,
        created_count |-> IF stageC THEN CreatedCount(done, 1) ELSE 0,
        \* else: print("Proprieta' 't_fazzoletti' non trovata, irrigidimenti non creati.")
        printed |-> IF stageC /\ "t_fazzoletti" \notin props
                    THEN {"irrigidimenti non creati"} ELSE {}]

----------------------------------------------------------------------------
(* local_model/link_cluster.py *)

\* a session in progress: the calls made so far, whether it still runs
\* (no exception yet), the masters of the last scan, the clusters created
S0 == [lg |-> <<>>, ok |-> TRUE, masters |-> <<>>, cl |-> {}]

\* the next call of api is the one the injected fault makes fail
Inject(lg, api, fault) ==
    /\ fault.site = api
    /\ Cardinality({i \in 1..Len(lg) : lg[i].api = api}) = fault.nth - 1

\* ck(st7.<api>(...)): det tells whether the database itself accepts the call
Step(st, api, det, fault) ==
    IF ~st.ok THEN st
    ELSE LET good == det /\ ~Inject(st.lg, api, fault)
         IN [st EXCEPT !.lg = Append(@, [api |-> api, ok |-> good]), !.ok = good]

\* raise <Error> when cond holds
RaiseIf(st, cond) == IF st.ok /\ cond THEN [st EXCEPT !.ok = FALSE] ELSE st

RECURSIVE ReadNodes(_, _, _, _, _)
\* coords = {nid: _xyz(uID, nid) for nid in node_ids}
ReadNodes(st, db, node_ids, i, fault) ==
    IF i > Len(node_ids) THEN st
    ELSE ReadNodes(Step(st, "GetNodeXYZ", node_ids[i] \in DOMAIN db, fault),
                   db, node_ids, i + 1, fault)

RECURSIVE ScanSame(_, _, _, _, _, _, _, _, _)
\* for nid in range(1, tot + 1): skip the slave, skip a node whose read
\* fails, collect the nodes within tol of ref on axis ax
ScanSame(st, db, ax, ref, exclude, tol, tot, nid, fault) ==
    IF ~st.ok \/ nid > tot THEN st
    ELSE IF nid = exclude
    THEN ScanSame(st, db, ax, ref, exclude, tol, tot, nid + 1, fault)
    ELSE LET good == nid \in DOMAIN db /\ ~Inject(st.lg, "GetNodeXYZ", fault)
             st1 == [st EXCEPT
                       !.lg = Append(@, [api |-> "GetNodeXYZ", ok |-> good]),
                       !.masters = IF good /\ Abs(db[nid][ax] - ref) <= tol
                                   THEN Append(@, nid) ELSE @]
         IN ScanSame(st1, db, ax, ref, exclude, tol, tot, nid + 1, fault)

\* _masters_same_y(uID, y_ref, exclude, tol)
MastersSameY(st, db, y_ref, exclude, tol, fault) ==
    LET st1 == Step([st EXCEPT !.masters = <<>>], "GetTotal", TRUE, fault)
    IN ScanSame(st1, db, 2, y_ref, exclude, tol, GetTotalNodes(db), 1, fault)

RECURSIVE SelectAll(_, _, _, _)
\* for m in masters: _select(uID, m, True)
SelectAll(st, masters, i, fault) ==
    IF i > Len(masters) THEN st
    ELSE SelectAll(Step(st, "SetEntitySelectState", TRUE, fault), masters, i + 1, fault)

\* _clear_sel; select the masters; St7CreateRigidLinkCluster(uID, 1, plane, slave)
CreateCluster(st, plane, slave, fault) ==
    LET st1 == Step(st, "SetAllEntitySelectState", TRUE, fault)
        st2 == SelectAll(st1, st.masters, 1, fault)
        st3 == Step(st2, "CreateRigidLinkCluster", TRUE, fault)
    IN IF st3.ok
       THEN [st3 EXCEPT !.cl = @ \cup {[plane |-> plane, slave |-> slave,
                                         masters |-> Range(st.masters)]}]
       ELSE st3

\* finally: try: if opened: ck(CloseFile) finally: Release()
FinallyOpened(st, fault) ==
    LET lg == st.lg
        initOk == Len(lg) >= 1 /\ lg[1].ok
        opened == Len(lg) >= 2 /\ lg[2].ok
        closeOk == ~Inject(lg, "CloseFile", fault)
    IN IF ~initOk THEN st
       ELSE IF opened
       THEN [st EXCEPT !.lg = @ \o <<[api |-> "CloseFile", ok |-> closeOk],
                                      [api |-> "Release", ok |-> TRUE]>>,
                       !.ok = @ /\ closeOk]
       ELSE [st EXCEPT !.lg = Append(@, [api |-> "Release", ok |-> TRUE])]

\* max(node_ids, key=y) and min(node_ids, key=y): the first such node of the list
FirstWith(node_ids, db, y) ==
    node_ids[Min({i \in 1..Len(node_ids) : db[node_ids[i]][2] = y})]
NodeYMax(node_ids, db) ==
    FirstWith(node_ids, db, Max({db[node_ids[i]][2] : i \in 1..Len(node_ids)}))
NodeYMin(node_ids, db) ==
    FirstWith(node_ids, db, Min({db[node_ids[i]][2] : i \in 1..Len(node_ids)}))

\* create_column_clusters_XZ(model_path, node_ids, tol) on the file (db, cl)
\* (len(node_ids) >= 3): [lg, raised, saved, cl, made]
ColumnClustersXZ(db, cl, node_ids, tol, fault) ==
    LET s1 == Step(Step(S0, "Init", TRUE, fault), "OpenFile", TRUE, fault)
        s2 == ReadNodes(s1, db, node_ids, 1, fault)
        n_ymax == NodeYMax(node_ids, db)
        n_ymin == NodeYMin(node_ids, db)
        \* XZ @ Y max
        s3 == MastersSameY(s2, db, db[n_ymax][2], n_ymax, tol, fault)
        s4 == RaiseIf(s3, s3.masters = <<>>)
        s5 == CreateCluster(s4, "ZX", n_ymax, fault)
        \* XZ @ Y min
        s6 == MastersSameY(s5, db, db[n_ymin][2], n_ymin, tol, fault)
        s7 == RaiseIf(s6, s6.masters = <<>>)
        s8 == CreateCluster(s7, "ZX", n_ymin, fault)
        s9 == Step(s8, "SaveFile", TRUE, fault)
        end == FinallyOpened(IF s2.ok THEN s9 ELSE s2, fault)
    IN [lg |-> end.lg,
        raised |-> ~end.ok,
        saved |-> SavedIn(end.lg),
        cl |-> IF SavedIn(end.lg) THEN cl \cup end.cl ELSE cl,
        made |-> end.cl]

\* create_beam_link_cluster_YZ(model_path, slave_node_id, tol) on the file (db, cl)
BeamLinkClusterYZ(db, cl, slave_node_id, tol, fault) ==
    LET s1 == Step(Step(S0, "Init", TRUE, fault), "OpenFile", TRUE, fault)
        s2 == Step(s1, "GetNodeXYZ", slave_node_id \in DOMAIN db, fault)
        x_ref == db[slave_node_id][1]
        s3 == Step(s2, "GetTotal", TRUE, fault)
        s4 == ScanSame(s3, db, 1, x_ref, slave_node_id, tol, GetTotalNodes(db), 1, fault)
        s5 == RaiseIf(s4, s4.masters = <<>>)
        s6 == CreateCluster(s5, "YZ", slave_node_id, fault)
        s7 == Step(s6, "SaveFile", TRUE, fault)
        end == FinallyOpened(IF s2.ok THEN s7 ELSE s2, fault)
    IN [lg |-> end.lg,
        raised |-> ~end.ok,
        saved |-> SavedIn(end.lg),
        cl |-> IF SavedIn(end.lg) THEN cl \cup end.cl ELSE cl,
        made |-> end.cl]

----------------------------------------------------------------------------
(* Operations whose geometric work is the library's: the tables imported,   *)
(* the plates cut and the nodes merged are not computed; the operations     *)
(* keep their API calls, their failures and what they save.                 *)

\* a call whose failure is caught where it is made: the session goes on
StepCaught(st, api, fault) ==
    IF ~st.ok THEN st
    ELSE [st EXCEPT !.lg = Append(@, [api |-> api, ok |-> ~Inject(st.lg, api, fault)])]

RECURSIVE Steps(_, _, _, _)
\* ck(...) for each of apis in turn
Steps(st, apis, i, fault) ==
    IF i > Len(apis) THEN st
    ELSE Steps(Step(st, apis[i], TRUE, fault), apis, i + 1, fault)

\* finally: try: ck(CloseFile) finally: Release(), after an Init outside the try
FinallyClose(st, fault) ==
    IF st.lg[1].ok
    THEN LET closeOk == ~Inject(st.lg, "CloseFile", fault)
         IN [st EXCEPT !.lg = @ \o <<[api |-> "CloseFile", ok |-> closeOk],
                                      [api |-> "Release", ok |-> TRUE]>>,
                       !.ok = @ /\ closeOk]
    ELSE st

\* what a session reports: its calls, whether it raised, whether it saved
Outcome(st) == [lg |-> st.lg, raised |-> ~st.ok, saved |-> SavedIn(st.lg)]

\* run_import_disp_time_tables(model_path, disp_time_folder) with one table
\* file: a table that cannot be created is reported and skipped
ImportDispTimeTables(fault) ==
    LET s1 == Steps(S0, <<"Init", "OpenFile">>, 1, fault)
        s2 == StepCaught(s1, "NewTableType", fault)
        made == s2.ok /\ s2.lg[Len(s2.lg)].ok
        s3 == IF made THEN Step(s2, "SaveFile", TRUE, fault) ELSE s2
    IN Outcome(FinallyClose(s3, fault))

\* _select_all_plates / _deselect_all_plates: one state change stands for
\* the loop over the plates
SelectPlates(st, pl, fault) ==
    LET s1 == Step(st, "GetTotal", TRUE, fault)
    IN IF DOMAIN pl = {} THEN s1 ELSE Step(s1, "SetEntitySelectState", TRUE, fault)

\* run_cut_elements_at_nodes(model_path): the node scan skips a node that
\* cannot be read (one read stands for the scan); one plane is cut for each
\* of the three axes
CutElementsAtNodes(db, pl, fault) ==
    LET s1 == Steps(S0, <<"Init", "OpenFile", "GetTotal">>, 1, fault)
        s2 == IF DOMAIN db = {} THEN s1 ELSE StepCaught(s1, "GetNodeXYZ", fault)
        s3 == Step(SelectPlates(s2, pl, fault), "SetKeepSelect", TRUE, fault)
        s4 == Steps(s3, <<"DefinePlaneGlobalN", "CutElementsByPlane",
                          "DefinePlaneGlobalN", "CutElementsByPlane",
                          "DefinePlaneGlobalN", "CutElementsByPlane",
                          "SetKeepSelect">>, 1, fault)
        s5 == Step(SelectPlates(s4, pl, fault), "SaveFile", TRUE, fault)
    IN Outcome(FinallyClose(s5, fault))

----------------------------------------------------------------------------
(* local_model/notch_offset.py *)

RECURSIVE SumOf(_)
SumOf(S) == IF S = {} THEN 0 ELSE LET v == CHOOSE v \in S : TRUE IN v + SumOf(S \ {v})

\* calculate_notch_offset(beam_thk, col_thk, extra_thk), thks being the values
\* of the three dicts in order (0 for None): the positive values are put in
\* a set, and the result is 0.5 * mean + 1.5 * max + 0.7 * min over that
\* set, as the fraction num / den; 0.0 when no value is positive
CalculateNotchOffset(thks) ==
    LET all_thicknesses == {thks[i] : i \in {j \in 1..Len(thks) : thks[j] > 0}}
        \* valid_thicknesses = sorted(list(set(...)))
        valid == all_thicknesses
        n == Cardinality(valid)
    IN IF valid = {} THEN [num |-> 0, den |-> 1]
       ELSE [num |-> 5 * SumOf(valid) + 15 * n * Max(valid) + 7 * n * Min(valid),
             den |-> 10 * n]

\* None of Python
None == [num |-> -1, den |-> 0]

\* a variant that opens the model and cleans the mesh whatever the offset is
NotchOffsetAlwaysCleans(thks, fault) ==
    LET notch_offset == CalculateNotchOffset(thks)
        end == FinallyClose(Steps(S0, <<"Init", "OpenFile", "GetTotal", "SetCleanMeshOptions",
                                        "CleanMesh", "GetTotal", "SaveFile">>, 1, fault),
                            fault)
    IN [lg |-> end.lg, raised |-> ~end.ok, saved |-> SavedIn(end.lg),
        ret |-> IF end.ok /\ notch_offset.num > 0 THEN notch_offset ELSE [num |-> -1, den |-> 0]]

\* run_notch_offset_calculation_and_clean_mesh: None without a session when
\* the offset is not positive; the offset when the session ends without error
NotchOffsetAndCleanMesh(thks, fault) ==
    LET notch_offset == CalculateNotchOffset(thks)
        s1 == Steps(S0, <<"Init", "OpenFile", "GetTotal", "SetCleanMeshOptions",
                          "CleanMesh", "GetTotal", "SaveFile">>, 1, fault)
        end == FinallyClose(s1, fault)
    IN IF notch_offset.num <= 0
       THEN [lg |-> <<>>, raised |-> FALSE, saved |-> FALSE, ret |-> None]
       ELSE [lg |-> end.lg, raised |-> ~end.ok, saved |-> SavedIn(end.lg),
             ret |-> IF end.ok THEN notch_offset ELSE None]

----------------------------------------------------------------------------
(* local_model/mesh_plate.py *)

\* run_plates_to_faces(model_path, delete_sources=True) on the file
\* (pl, nfaces): every plate becomes a face and is deleted
PlatesToFaces(pl, nfaces, fault) ==
    LET nplates == GetTotalElements(pl)
        s1 == Steps(S0, <<"Init", "OpenFile", "ClearGlobalIntegerValues", "GetTotal">>,
                    1, fault)
        \* if nplates == 0: raise RuntimeError
        s2 == RaiseIf(s1, nplates = 0)
        s3 == Steps(s2, <<"SetAllEntitySelectState", "SetSourceAction", "FaceFromPlate",
                          "GetGlobalIntegerValue", "GetGlobalIntegerValue", "GetTotal",
                          "SaveFile">>, 1, fault)
        end == FinallyClose(s3, fault)
    IN [lg |-> end.lg, raised |-> ~end.ok, saved |-> SavedIn(end.lg),
        pl |-> IF SavedIn(end.lg) THEN EmptyMap ELSE pl,
        faces |-> IF SavedIn(end.lg) THEN nfaces + nplates ELSE nfaces,
        ret |-> nplates]

RECURSIVE Invalidate(_, _, _, _)
\* for f in range(1, nfaces + 1): ck(St7InvalidateGeometryFace(uID, f))
Invalidate(st, nfaces, f, fault) ==
    IF f > nfaces THEN st
    ELSE Invalidate(Step(st, "InvalidateGeometryFace", TRUE, fault), nfaces, f + 1, fault)

\* _purge_geometry_faces(uID)
PurgeGeometryFaces(st, nfaces, fault) ==
    LET s1 == Step(st, "GetTotal", TRUE, fault)
        s2 == Invalidate(s1, nfaces, 1, fault)
        s3 == IF nfaces # 0 THEN Step(s2, "DeleteInvalidGeometry", TRUE, fault) ELSE s2
    IN Step(s3, "GetTotal", TRUE, fault)

\* faces_automesh returns (meshed, pmeshed, nmeshed) as the library reports
\* them: of nfaces faces, partial are left partially meshed and not_meshed
\* without a mesh
MeshCounts(nfaces, partial, not_meshed) ==
    LET n == Min({not_meshed, nfaces})
        p == Min({partial, nfaces - n})
    IN <<nfaces - n - p, p, n>>

\* run_faces_automesh(model_path, mesh_size_abs) on the file (nfaces, nmesh):
\* the value of faces_automesh is dropped, every face is purged, and the
\* function returns None
FacesAutomesh(nfaces, nmesh, partial, not_meshed, fault) ==
    LET s1 == Steps(S0, <<"Init", "OpenFile", "GetTotal">>, 1, fault)
        \* if nfaces == 0: raise RuntimeError
        s2 == RaiseIf(s1, nfaces = 0)
        s3 == Steps(s2, <<"ClearGlobalIntegerValues", "SurfaceMesh", "GetGlobalIntegerValue",
                          "GetGlobalIntegerValue", "GetGlobalIntegerValue">>, 1, fault)
        s4 == PurgeGeometryFaces(s3, nfaces, fault)
        s5 == Step(s4, "SaveFile", TRUE, fault)
        end == FinallyClose(s5, fault)
        counts == MeshCounts(nfaces, partial, not_meshed)
    IN [lg |-> end.lg, raised |-> ~end.ok, saved |-> SavedIn(end.lg),
        faces |-> IF SavedIn(end.lg) THEN 0 ELSE nfaces,
        meshed |-> IF SavedIn(end.lg) THEN nmesh + counts[1] ELSE nmesh,
        counts |-> IF s3.ok THEN counts ELSE <<0, 0, 0>>,
        purged |-> IF NrOk(end.lg, "DeleteInvalidGeometry") > 0 THEN nfaces ELSE 0,
        \* no return statement: the counts are not returned (<<>> for no value)
        ret |-> <<>>]

----------------------------------------------------------------------------
(* create_link_clusters_beamYZ_and_colsXZ of main.py step 26: three         *)
(* couplings per joint, each tying a slave to every other node within the   *)
(* tolerance on the axis of its plane; a coupling without masters is        *)
(* skipped                                                                   *)

\* every other node of the model taken as a master
MastersAnywhere(db, ax, slave, tol) == DOMAIN db \ {slave}

MastersWithin(db, ax, slave, tol) ==
    {n \in DOMAIN db \ {slave} : Abs(db[n][ax] - db[slave][ax]) <= tol}

RECURSIVE Couple(_, _, _, _, _, _)
Couple(st, db, slaves, i, tol, fault) ==
    IF i > Len(slaves) THEN st
    ELSE LET sl == slaves[i]
             s1 == Step(st, "GetNodeXYZ", sl.slave \in DOMAIN db, fault)
             masters == MastersWithin(db, sl.ax, sl.slave, tol)
             s2 == IF s1.ok /\ masters # {}
                   THEN Step(s1, "CreateRigidLinkCluster", TRUE, fault) ELSE s1
             s3 == IF s2.ok /\ masters # {}
                   THEN [s2 EXCEPT !.cl = @ \cup {[plane |-> sl.plane, slave |-> sl.slave,
                                                   masters |-> masters]}]
                   ELSE s2
         IN Couple(s3, db, slaves, i + 1, tol, fault)

LinkClustersBeamYZAndColsXZ(db, cl, beam_mid_id, col_low_id, col_up_id, tol, fault) ==
    LET slaves == <<[slave |-> beam_mid_id, plane |-> "YZ", ax |-> 1],
                    [slave |-> col_low_id, plane |-> "ZX", ax |-> 2],
                    [slave |-> col_up_id, plane |-> "ZX", ax |-> 2]>>
        s1 == Steps(S0, <<"Init", "OpenFile">>, 1, fault)
        s2 == Couple(s1, db, slaves, 1, tol, fault)
        s3 == Step(s2, "SaveFile", TRUE, fault)
        end == FinallyClose(s3, fault)
    IN [lg |-> end.lg, raised |-> ~end.ok, saved |-> SavedIn(end.lg),
        cl |-> IF SavedIn(end.lg) THEN cl \cup end.cl ELSE cl,
        made |-> end.cl]

----------------------------------------------------------------------------
(* local_model/freedom_cases.py: create_unit_disp_freedom_cases.  The file  *)
(* keeps its freedom cases in a list; a case is known to the API by its      *)
(* number, which is its place in the list (St7GetNumFreedomCase is the       *)
(* length and _find_case_by_name walks the numbers 1..n).  A case is         *)
(* [name, fixed], fixed being the pairs <<node, dof>> that are prescribed.   *)

Dofs == <<"DX", "DY", "DZ">>
\* f"node{nid}_{dof_name}"
CaseName(nid, dof_name) == [node |-> nid, dof |-> dof_name]
DefaultName == [node |-> 0, dof |-> "Freedom Case 1"]
DeletedName == [node |-> 0, dof |-> "_deleted"]
NewFileCases == <<[name |-> DefaultName, fixed |-> {}]>>

\* _find_case_by_name: the first number whose case has the name, 0 if none
FindCaseByName(fc, name) ==
    IF \E i \in 1..Len(fc) : fc[i].name = name
    THEN Min({i \in 1..Len(fc) : fc[i].name = name}) ELSE 0
\* the API calls of _find_case_by_name
FindPlan(fc, name) ==
    <<"GetNumFreedomCase">>
    \o [i \in 1..(IF FindCaseByName(fc, name) = 0 THEN Len(fc) ELSE FindCaseByName(fc, name)) |->
           "GetFreedomCaseName"]

\* _clear_case: St7SetNodeRestraint6 with nothing fixed on the nodes 1..tot
ClearCase(fc, db, case_num) ==
    [fc EXCEPT ![case_num].fixed = {r \in @ : r[1] \notin 1..GetTotalNodes(db)}]
ClearPlan(db) == <<"GetTotal">> \o [i \in 1..GetTotalNodes(db) |-> "SetNodeRestraint6"]

\* one pass of the two loops for node nid and the dof of index k:
\* _new_case, _clear_case, the unit restraint, result[case_name] = case_num
UnitCase(st, db, nid, k) ==
    LET name == CaseName(nid, Dofs[k])
        found == FindCaseByName(st.fc, name)
        fc1 == IF found # 0 THEN st.fc ELSE Append(st.fc, [name |-> name, fixed |-> {}])
        num == FindCaseByName(fc1, name)
        fc2 == ClearCase(fc1, db, num)
        \* R and U hold all six DOF of the node: only dof_i is prescribed
        fc3 == [fc2 EXCEPT ![num].fixed = {r \in @ : r[1] # nid} \cup {<<nid, Dofs[k]>>}]
    IN [fc |-> fc3,
        result |-> [n \in DOMAIN st.result \cup {name} |->
                       IF n = name THEN num ELSE st.result[n]],
        plan |-> st.plan \o FindPlan(st.fc, name)
                 \o (IF found # 0 THEN <<>>
                     ELSE <<"NewFreedomCase">> \o FindPlan(fc1, name))
                 \o ClearPlan(db) \o <<"SetNodeRestraint6">>]

RECURSIVE UnitCases(_, _, _, _)
\* for nid in outer_node_ids: for dof_name, dof_i in DOF_IDX.items(): ...
UnitCases(st, db, outer_node_ids, j) ==
    IF j > 3 * Len(outer_node_ids) THEN st
    ELSE UnitCases(UnitCase(st, db, outer_node_ids[((j - 1) \div 3) + 1], ((j - 1) % 3) + 1),
                   db, outer_node_ids, j + 1)

\* St7DeleteFreedomCase: the case leaves the list, the later ones move up
DeleteFreedomCase(fc, case_num) ==
    [i \in 1..(Len(fc) - 1) |-> IF i < case_num THEN fc[i] ELSE fc[i + 1]]

\* _try_delete_case(uID, 1)
TryDeleteCase(st, db, api) ==
    IF "St7DeleteFreedomCase" \in api
    THEN [st EXCEPT !.fc = DeleteFreedomCase(@, 1),
                    !.plan = @ \o <<"DeleteFreedomCase">>]
    ELSE [st EXCEPT !.fc = [ClearCase(@, db, 1) EXCEPT ![1].name = DeletedName],
                    !.plan = @ \o ClearPlan(db) \o <<"SetFreedomCaseName">>]

\* if delete_default: ... if name1 not in result: _try_delete_case(uID, 1)
DeleteDefault(st, db, delete_default, api) ==
    IF ~delete_default THEN st
    ELSE LET s1 == [st EXCEPT !.plan = @ \o <<"GetNumFreedomCase">>]
         IN IF Len(s1.fc) < 1 THEN s1
            ELSE LET s2 == [s1 EXCEPT !.plan = @ \o <<"GetFreedomCaseName">>]
                 IN IF s2.fc[1].name \in DOMAIN s2.result THEN s2
                    ELSE TryDeleteCase(s2, db, api)

\* create_unit_disp_freedom_cases(model_path, outer_node_ids, delete_default)
\* on the file (fc, db): [lg, raised, saved, fc, ret].  St7CloseFile is
\* called without _ck in the finally clause
CreateUnitDispFreedomCases(fc, db, outer_node_ids, delete_default, api, fault) ==
    IF Len(outer_node_ids) # 3
    THEN [lg |-> <<>>, raised |-> TRUE, saved |-> FALSE, fc |-> fc, ret |-> EmptyMap]
    ELSE LET loops == UnitCases([fc |-> fc, result |-> EmptyMap,
                                 plan |-> <<"Init", "OpenFile">>], db, outer_node_ids, 1)
             end == DeleteDefault(loops, db, delete_default, api)
             plan == end.plan \o <<"SaveFile">>
             k == FailIndex(plan, fault)
             body == Executed(plan, k)
             lg == IF k = 1 THEN body
                   ELSE body \o <<[api |-> "CloseFile", ok |-> fault.site # "CloseFile"],
                                  [api |-> "Release", ok |-> TRUE]>>
         IN [lg |-> lg, raised |-> k # 0, saved |-> SavedIn(lg),
             fc |-> IF SavedIn(lg) THEN end.fc ELSE fc,
             ret |-> IF k # 0 THEN EmptyMap ELSE end.result]

----------------------------------------------------------------------------
(* Inputs of a run *)

\* I sections: D, B1, tf1 (bottom flange), B2, tf2 (top flange), tw
SecBeam == [D |-> 10, B1 |-> 6, tf1 |-> 2, B2 |-> 6, tf2 |-> 2, tw |-> 1]
SecBeamUnsym == [D |-> 10, B1 |-> 6, tf1 |-> 2, B2 |-> 3, tf2 |-> 2, tw |-> 1]
SecCol == [D |-> 8, B1 |-> 4, tf1 |-> 2, B2 |-> 4, tf2 |-> 2, tw |-> 1]

\* the joint of the global frame: centre, beam end, lower and upper column end
\* (half units), with the node numbers of the global model
JointNodes(side) ==
    <<[id |-> 10, xyz |-> <<0, 0, 0>>],
      [id |-> 11, xyz |-> <<side * 80, 0, 0>>],
      [id |-> 12, xyz |-> <<0, -80, 0>>],
      [id |-> 13, xyz |-> <<0, 80, 0>>]>>

\* The library may keep the node numbers of a file compact: writing a node
\* number beyond the total then creates the nodes in between, at the origin.
Compact(db) ==
    [n \in 1..Max(DOMAIN db) |-> IF n \in DOMAIN db THEN db[n] ELSE <<0, 0, 0>>]

Cfgs ==
    {c \in [keep_ids : BOOLEAN, side : {-1, 1}, compact : BOOLEAN, gusset_thk : {0},
             no_thk : {FALSE}] :
        c.compact => c.keep_ids}
\* main.py: step 16 renumbers the nodes from 1; the gusset thickness of the
\* dialog is absent (0) or given; the section data of the global model give
\* the thicknesses, or 0 for each of them (no_thk).  Step 19 refuses a
\* thickness of 0 with an assert statement, so a run with no_thk gets to step
\* 20 only under an interpreter that skips assertions (python -O)
MainCfgs ==
    {c \in [keep_ids : {FALSE}, side : {-1, 1}, compact : {FALSE}, gusset_thk : {0, 3},
             no_thk : BOOLEAN] :
        c.no_thk => c.side = -1}

\* out of step 16
Out(c) == CreateSt7WithNodes(JointNodes(c.side), c.keep_ids)
CentreId(c) == Out(c).base_node_ids[1]
BeamMidId(c) == Out(c).intermediate_ids_by_branch[1][1]
ColLowId(c) == Out(c).intermediate_ids_by_branch[2][1]
ColUpId(c) == Out(c).intermediate_ids_by_branch[3][1]

\* arguments of create_midplane_nodes_for_members: those of main.py step 20,
\* the call without beam nodes, and the call with two beam stations that are
\* not at the same height
WithoutThickness(d) == [d EXCEPT !.tw = 0, !.tf1 = 0, !.tf2 = 0]
MainGenArgs(c) ==
    [beam_ids |-> <<BeamMidId(c)>>, col_ids |-> <<ColLowId(c), ColUpId(c)>>,
     col_upper |-> ColUpId(c),
     beam_dims |-> IF c.no_thk THEN WithoutThickness(SecBeamUnsym) ELSE SecBeamUnsym,
     col_dims |-> IF c.no_thk THEN WithoutThickness(SecCol) ELSE SecCol]
GenArgs(c) ==
    {MainGenArgs(c),
     [MainGenArgs(c) EXCEPT !.beam_dims = SecBeam],
     [MainGenArgs(c) EXCEPT !.beam_ids = <<>>]}
    \cup (IF c.keep_ids THEN {}
          ELSE {[MainGenArgs(c) EXCEPT !.beam_ids = <<BeamMidId(c), ColUpId(c)>>]})

\* res_nodes handed to create_plates_for_joint by a direct caller: the value
\* the generator returned, or that value with a group, the coordinates, a
\* label or a node of a label removed, or with a node id used twice
WithoutGroup(r, g) ==
    [r EXCEPT !.groups = [k \in DOMAIN r.groups \ {g} |-> r.groups[k]]]
WithoutCoords(r) == [r EXCEPT !.coords = EmptyMap]
WithoutLabel(r, g, lab) ==
    [r EXCEPT !.groups[g] = [k \in DOMAIN r.groups[g] \ {lab} |-> r.groups[g][k]]]
Truncated(r, g, lab) == [r EXCEPT !.groups[g][lab] = SubSeq(@, 1, 1)]
Repeated(r, g, lab) == [r EXCEPT !.groups[g][lab] = <<@[1], @[1]>>]
ResNodesArgs(r) ==
    {r} \cup
    IF GroupsMissing(r) THEN {}
    ELSE {WithoutGroup(r, "col_sup_nodes_base"),
          WithoutCoords(r),
          WithoutLabel(r, "col_inf_nodes_yBeamMax", "flangia_sx"),
          Truncated(r, "col_inf_nodes_base", "anima"),
          Repeated(r, "col_inf_nodes_base", "anima")}

\* props_map: that of create_plate_properties without and with gusset
\* plates, and one that lacks the panel property
PropsArgs == {PropsRequired, PropsRequired \cup {"t_fazzoletti"},
              PropsRequired \ {"t_panel.modale"}}

\* node_ids of create_column_clusters_XZ, tolerances (half units)
ColumnNodeIds(c) ==
    {<<ColLowId(c), BeamMidId(c), ColUpId(c)>>,
     <<ColLowId(c), BeamMidId(c), CentreId(c)>>}
Tols == {0, 2}

\* main.py, step 19
\* extra of ask_panel_gusset_thicknesses: a thickness not entered is 0
Extra(c) == [panel_thk |-> 0, gusset_thk |-> c.gusset_thk]
\* props_map of create_plate_properties (step 19)
PropsMap(extra) ==
    PropsRequired \cup (IF extra.gusset_thk > 0 THEN {"t_fazzoletti"} ELSE {})
\* the values of beam_thk, col_thk and extra
Thicknesses(a, extra) ==
    <<a.beam_dims.tw, a.beam_dims.tf1, a.beam_dims.tf2,
      a.col_dims.tw, a.col_dims.tf1, a.col_dims.tf2, extra.panel_thk, extra.gusset_thk>>

----------------------------------------------------------------------------
(* State *)

NoRes == [groups |-> EmptyMap, coords |-> EmptyMap]

NoOp == [op |-> "none", raised |-> FALSE, saved |-> FALSE,
         pre |-> EmptyMap,      \* nodes of the file when the operation started
         args |-> <<>>,         \* arguments of the call
         ids |-> <<>>,          \* node numbers written by SetNodeUCS, in order
         queued |-> <<>>,       \* plates_to_create
         done |-> <<>>,         \* plate creations attempted: [id, prop, conn, ok]
         made |-> {},           \* couplings created in the session
         printed |-> {},        \* diagnostics printed where the claims need them
         ret |-> 0]             \* returned value where the claims need it

InitFileWith(c, fc, api) ==
    /\ cases = fc
    /\ st7api = api
    /\ nodes = IF c.compact THEN Compact(Out(c).db) ELSE Out(c).db
    /\ plates = EmptyMap
    /\ clusters = {}
    /\ faces = 0
    /\ meshed = 0
    /\ res_nodes = NoRes
    /\ last = NoOp
    /\ log = <<>>
    /\ calls = 0
    /\ trace = <<>>
    /\ faulty = 0
    /\ cfg = c

\* the file of create_st7_with_nodes: its one freedom case, no restraint
InitFile(c) == InitFileWith(c, NewFileCases, {"St7DeleteFreedomCase"})

Init ==
    /\ \E c \in Cfgs : InitFile(c)
    /\ pc = "api"

----------------------------------------------------------------------------
(* Operations called directly; an exception that reaches the caller ends it *)

\* an operation may be hit by a fault while the budget lasts
Budget(fault) ==
    /\ fault # NoFault => faulty < MaxFaulty
    /\ faulty' = IF fault = NoFault THEN faulty ELSE faulty + 1

\* create_midplane_nodes_for_members(model_path, a.beam_ids, a.col_ids, ...)
\* on the file db with one fault: [lg, raised, saved, db, ids, ret]
MidplaneRun(db, a, fault) ==
    Bind(Finally(Executed(MidplanePlan(a), FailIndex(MidplanePlan(a), fault)), fault, TRUE),
         LAMBDA lg :
    Bind(MidplaneNodes(db, a, a.beam_dims, a.col_dims),
         LAMBDA w :
            [lg |-> lg, raised |-> Raised(lg), saved |-> SavedIn(lg),
             db |-> IF SavedIn(lg) THEN w.db ELSE db,
             ids |-> SubSeq(w.ids, 1, NrOk(lg, "SetNodeUCS")),
             ret |-> IF Raised(lg) THEN NoRes ELSE w.ret]))

MidplaneCall(a, fault) ==
    \E w \in {MidplaneRun(nodes, a, fault)} :
       /\ nodes' = w.db
       /\ res_nodes' = IF w.raised THEN res_nodes ELSE w.ret
       /\ log' = w.lg
       /\ last' = [NoOp EXCEPT !.op = "create_midplane_nodes_for_members",
                               !.raised = w.raised, !.saved = w.saved,
                               !.pre = nodes, !.args = a,
                               !.ids = w.ids, !.ret = w.ret]
       /\ UNCHANGED <<plates, clusters, faces, meshed>>

\* create_plates_for_joint(model_path, r, props)
PlatesCall(r, props, fault, strict) ==
    \E w \in {PlatesForJoint(nodes, plates, r, props, fault, strict)} :
       /\ nodes' = w.db
       /\ plates' = w.pl
       /\ log' = w.lg
       /\ last' = [NoOp EXCEPT !.op = "create_plates_for_joint",
                               !.raised = w.raised, !.saved = w.saved,
                               !.pre = nodes, !.args = [res_nodes |-> r, props |-> props, strict |-> strict],
                               !.ids = w.ids, !.queued = w.queued, !.done = w.done,
                               !.printed = w.printed, !.ret = w.created_count]
       /\ UNCHANGED <<clusters, faces, meshed, res_nodes>>

\* create_column_clusters_XZ(model_path, node_ids, tol)
ColumnClustersCall(node_ids, tol, fault) ==
    \E w \in {ColumnClustersXZ(nodes, clusters, node_ids, tol, fault)} :
       /\ clusters' = w.cl
       /\ log' = w.lg
       /\ last' = [NoOp EXCEPT !.op = "create_column_clusters_XZ",
                               !.raised = w.raised, !.saved = w.saved,
                               !.pre = nodes, !.args = [node_ids |-> node_ids, tol |-> tol],
                               !.made = w.made]
       /\ UNCHANGED <<nodes, plates, faces, meshed, res_nodes>>

\* create_beam_link_cluster_YZ(model_path, slave_node_id, tol)
BeamClusterCall(slave, tol, fault) ==
    \E w \in {BeamLinkClusterYZ(nodes, clusters, slave, tol, fault)} :
       /\ clusters' = w.cl
       /\ log' = w.lg
       /\ last' = [NoOp EXCEPT !.op = "create_beam_link_cluster_YZ",
                               !.raised = w.raised, !.saved = w.saved,
                               !.pre = nodes, !.args = [slave |-> slave, tol |-> tol],
                               !.made = w.made]
       /\ UNCHANGED <<nodes, plates, faces, meshed, res_nodes>>

\* a direct caller makes one call after the other; it goes on after a call
\* that returned
CanCall == pc = "api" /\ calls < MaxCalls
Caller ==
    /\ calls' = calls + 1
    /\ pc' = IF last'.raised THEN "stopped" ELSE "api"
    /\ UNCHANGED <<trace, cfg, cases, st7api>>

CallMidplaneNodes ==
    /\ CanCall
    /\ \E a \in GenArgs(cfg),
          fault \in FaultsAt({"Init", "OpenFile", "GetTotal", "SaveFile", "CloseFile"},
                             {"GetNodeXYZ", "SetNodeUCS"}) :
          Budget(fault) /\ MidplaneCall(a, fault)
    /\ Caller

CallPlates ==
    /\ CanCall
    /\ \E r \in ResNodesArgs(res_nodes), props \in PropsArgs,
          fault \in FaultsAt({"Init", "OpenFile", "GetNodeXYZ", "SaveFile", "CloseFile"},
                             {"GetTotal", "SetNodeUCS", "SetElementConnection"}) :
          /\ Budget(fault)
          /\ \E strict \in (IF r = res_nodes THEN {FALSE} ELSE BOOLEAN) :
                PlatesCall(r, props, fault, strict)
    /\ Caller

CallColumnClusters ==
    /\ CanCall
    /\ \E node_ids \in ColumnNodeIds(cfg), tol \in Tols,
          fault \in FaultsAt({"Init", "OpenFile", "SaveFile", "CloseFile"},
                             {"GetTotal", "GetNodeXYZ", "SetAllEntitySelectState",
                              "SetEntitySelectState", "CreateRigidLinkCluster"}) :
          Budget(fault) /\ ColumnClustersCall(node_ids, tol, fault)
    /\ Caller

CallBeamCluster ==
    /\ CanCall
    /\ \E tol \in Tols,
          fault \in FaultsAt({"Init", "OpenFile", "GetTotal", "SaveFile", "CloseFile",
                              "SetAllEntitySelectState", "CreateRigidLinkCluster"},
                             {"GetNodeXYZ", "SetEntitySelectState"}) :
          Budget(fault) /\ BeamClusterCall(BeamMidId(cfg), tol, fault)
    /\ Caller

----------------------------------------------------------------------------
(* main.py, steps 19 to 27 *)

\* the order of steps with the rigid links right after the plates
NextStepLinksFirst(step) ==
    CASE step = "step20" -> "step21"
      [] step = "step21" -> "step26"
      [] step = "step26" -> "step22"
      [] step = "step22" -> "step23"
      [] step = "step23" -> "step24"
      [] step = "step24" -> "step25"
      [] OTHER -> "step27"
\* the step that follows a step of main.py
NextStep(step) ==
    CASE step = "step20" -> "step21"
      [] step = "step21" -> "step22"
      [] step = "step22" -> "step23"
      [] step = "step23" -> "step24"
      [] step = "step24" -> "step25"
      [] step = "step25" -> "step26"
      [] OTHER -> "step27"

\* any offset taken as a mesh size
MeshSizeAny(offset) == TRUE
\* step 25: the checks on calculated_notch_offset before the conversion
MeshSizeOk(offset) == offset # None /\ offset.num > 0

\* calculated_notch_offset: None until step 24 assigns the returned value
CalculatedNotchOffset(tr) ==
    LET at == {i \in 1..Len(tr) : tr[i].step = "step24" /\ ~tr[i].raised}
    IN IF at = {} THEN None ELSE tr[CHOOSE i \in at : TRUE].ret

\* what a step leaves in the run's record
Did(step, w, ret) ==
    [step |-> step, ran |-> TRUE, raised |-> w.raised, lg |-> w.lg, ret |-> ret]
\* the same for the step whose call has just set last and log
DidLast(step) ==
    [step |-> step, ran |-> TRUE, raised |-> last'.raised, lg |-> log', ret |-> None]
Skipped(step) ==
    [step |-> step, ran |-> FALSE, raised |-> FALSE, lg |-> <<>>, ret |-> None]

\* a step whose except clause prints the error and lets the run go on
Goes(step, entry) ==
    /\ pc = step
    /\ trace' = Append(trace, entry)
    /\ log' = entry.lg
    /\ pc' = NextStep(step)
    /\ UNCHANGED <<calls, cfg, cases, st7api>>

\* step 20: create_midplane_nodes_for_members; an error exits the program
Step20 ==
    /\ pc = "step20"
    /\ \E fault \in FaultsAt({"Init", "OpenFile", "GetTotal", "SaveFile", "CloseFile"},
                             {"GetNodeXYZ", "SetNodeUCS"}) :
          /\ Budget(fault)
          /\ MidplaneCall(MainGenArgs(cfg), fault)
          /\ trace' = Append(trace, DidLast("step20"))
    /\ pc' = IF last'.raised THEN "exit" ELSE NextStep("step20")
    /\ UNCHANGED <<calls, cfg, cases, st7api>>

\* step 21: create_plates_for_joint when res_nodes and props_map are not empty
Step21 ==
    /\ pc = "step21"
    /\ IF Truthy(res_nodes.groups) /\ PropsMap(Extra(cfg)) # {}
       THEN \E fault \in FaultsAt({"Init", "OpenFile", "GetNodeXYZ", "SaveFile", "CloseFile"},
                                  {"GetTotal", "SetNodeUCS", "SetElementConnection"}) :
               /\ Budget(fault)
               /\ PlatesCall(res_nodes, PropsMap(Extra(cfg)), fault, FALSE)
               /\ trace' = Append(trace, DidLast("step21"))
       ELSE /\ trace' = Append(trace, Skipped("step21"))
            /\ UNCHANGED <<nodes, plates, clusters, faces, meshed, res_nodes, last, log, faulty>>
    /\ pc' = NextStep("step21")
    /\ UNCHANGED <<calls, cfg, cases, st7api>>

\* step 22: run_import_disp_time_tables
Step22 ==
    /\ pc = "step22"
    /\ \E fault \in FaultsAt({"Init", "OpenFile", "NewTableType", "SaveFile", "CloseFile"}, {}) :
          /\ Budget(fault)
          /\ \E w \in {ImportDispTimeTables(fault)} : Goes("step22", Did("step22", w, None))
    /\ UNCHANGED <<nodes, plates, clusters, faces, meshed, res_nodes, last>>

\* step 23: run_cut_elements_at_nodes
Step23 ==
    /\ pc = "step23"
    /\ \E fault \in FaultsAt({"Init", "OpenFile", "GetNodeXYZ", "SaveFile", "CloseFile"},
                             {"GetTotal", "SetEntitySelectState", "SetKeepSelect",
                              "DefinePlaneGlobalN", "CutElementsByPlane"}) :
          /\ Budget(fault)
          /\ \E w \in {CutElementsAtNodes(nodes, plates, fault)} :
                Goes("step23", Did("step23", w, None))
    /\ UNCHANGED <<nodes, plates, clusters, faces, meshed, res_nodes, last>>

\* step 24: run_notch_offset_calculation_and_clean_mesh
Step24 ==
    /\ pc = "step24"
    /\ \E fault \in FaultsAt({"Init", "OpenFile", "SetCleanMeshOptions", "CleanMesh",
                              "SaveFile", "CloseFile"}, {"GetTotal"}) :
          /\ Budget(fault)
          /\ \E w \in {NotchOffsetAndCleanMesh(Thicknesses(MainGenArgs(cfg), Extra(cfg)), fault)} :
                Goes("step24", Did("step24", w, w.ret))
    /\ UNCHANGED <<nodes, plates, clusters, faces, meshed, res_nodes, last>>

\* step 25: run_plates_to_faces, then run_faces_automesh, in one try
PlatesToFacesAndAutomesh(pl, nfaces, nmesh, offset, partial, not_meshed, fault, second) ==
    LET pf == PlatesToFaces(pl, nfaces, IF second THEN NoFault ELSE fault)
        am == FacesAutomesh(pf.faces, nmesh, partial, not_meshed,
                            IF second THEN fault ELSE NoFault)
        none == [nfaces |-> 0, counts |-> <<0, 0, 0>>, purged |-> 0, returned |-> <<>>]
    IN IF ~MeshSizeOk(offset)
       THEN [lg |-> <<>>, raised |-> TRUE, pl |-> pl, faces |-> nfaces, meshed |-> nmesh,
             ret |-> none]
       ELSE IF pf.raised
       THEN [lg |-> pf.lg, raised |-> TRUE, pl |-> pf.pl, faces |-> pf.faces,
             meshed |-> nmesh, ret |-> none]
       ELSE [lg |-> pf.lg \o am.lg, raised |-> am.raised, pl |-> pf.pl,
             faces |-> am.faces, meshed |-> am.meshed,
             ret |-> [nfaces |-> pf.faces, counts |-> am.counts, purged |-> am.purged,
                      returned |-> am.ret]]

Step25 ==
    /\ pc = "step25"
    /\ \E fault \in FaultsAt({"Init", "OpenFile", "ClearGlobalIntegerValues",
                              "SetAllEntitySelectState", "SetSourceAction", "FaceFromPlate",
                              "SurfaceMesh", "DeleteInvalidGeometry", "SaveFile", "CloseFile"},
                             {"GetTotal", "GetGlobalIntegerValue", "InvalidateGeometryFace"}),
          second \in BOOLEAN, partial \in {0, 1}, not_meshed \in {0, 1} :
          /\ Budget(fault)
          /\ \E w \in {PlatesToFacesAndAutomesh(plates, faces, meshed,
                                                CalculatedNotchOffset(trace), partial,
                                                not_meshed, fault, second)} :
                /\ plates' = w.pl
                /\ faces' = w.faces
                /\ meshed' = w.meshed
                /\ Goes("step25", Did("step25", w, w.ret))
    /\ UNCHANGED <<nodes, clusters, res_nodes, last>>

\* step 26: create_link_clusters_beamYZ_and_colsXZ with tol = 1e-6
Step26 ==
    /\ pc = "step26"
    /\ \E fault \in FaultsAt({"Init", "OpenFile", "SaveFile", "CloseFile"},
                             {"GetNodeXYZ", "CreateRigidLinkCluster"}) :
          /\ Budget(fault)
          /\ \E w \in {LinkClustersBeamYZAndColsXZ(nodes, clusters, BeamMidId(cfg),
                                                   ColLowId(cfg), ColUpId(cfg), 0, fault)} :
                /\ clusters' = w.cl
                /\ Goes("step26", Did("step26", w, None))
    /\ UNCHANGED <<nodes, plates, faces, meshed, res_nodes, last>>

InitMain ==
    /\ \E c \in MainCfgs : InitFile(c)
    /\ pc = "step20"

----------------------------------------------------------------------------
(* create_unit_disp_freedom_cases called on the file of step 16, once or    *)
(* again, by main.py (step 17) or by a direct caller                        *)

\* files the operation is called on: new, with a case of one of the names
\* left by an earlier run, with a first case that carries restraints
OuterIds(c) == SubSeq(Out(c).base_node_ids, 2, 4)
CaseFiles(c) ==
    {NewFileCases,
     NewFileCases \o <<[name |-> CaseName(OuterIds(c)[1], "DY"),
                        fixed |-> {<<OuterIds(c)[2], "DX">>, <<OuterIds(c)[1], "DZ">>}]>>,
     <<[name |-> DefaultName, fixed |-> {<<1, "DX">>, <<1, "DY">>, <<1, "DZ">>}]>>}
\* outer_node_ids: the three peripheral nodes (main.py), two of them, or
\* four nodes
OuterArgs(c) ==
    {OuterIds(c), SubSeq(OuterIds(c), 1, 2), Out(c).base_node_ids}

\* the file and the res_nodes that step 20 leaves
InitPlates ==
    /\ \E c \in {m \in MainCfgs : m.gusset_thk = 0 /\ ~m.no_thk} :
          \E g \in {MidplaneRun(Out(c).db, MainGenArgs(c), NoFault)} :
             /\ nodes = g.db
             /\ res_nodes = g.ret
             /\ cfg = c
    /\ cases = NewFileCases
    /\ st7api = {"St7DeleteFreedomCase"}
    /\ plates = EmptyMap
    /\ clusters = {}
    /\ faces = 0
    /\ meshed = 0
    /\ last = NoOp
    /\ log = <<>>
    /\ calls = 0
    /\ trace = <<>>
    /\ faulty = 0
    /\ pc = "api"

InitCases ==
    /\ \E c \in MainCfgs :
          /\ c.gusset_thk = 0 /\ ~c.no_thk
          /\ \E fc \in CaseFiles(c), api \in SUBSET {"St7DeleteFreedomCase"} :
                InitFileWith(c, fc, api)
    /\ pc = "cases"

CallFreedomCases ==
    /\ pc = "cases"
    /\ calls < MaxCalls
    /\ \E outer \in OuterArgs(cfg), delete_default \in BOOLEAN,
          fault \in FaultsAt({"Init", "OpenFile", "NewFreedomCase", "DeleteFreedomCase",
                              "SaveFile", "CloseFile"}, {"GetNumFreedomCase", "SetNodeRestraint6"}) :
          /\ Budget(fault)
          /\ \E w \in {CreateUnitDispFreedomCases(cases, nodes, outer, delete_default,
                                                  st7api, fault)} :
                /\ cases' = w.fc
                /\ log' = w.lg
                /\ last' = [NoOp EXCEPT !.op = "create_unit_disp_freedom_cases",
                                        !.raised = w.raised, !.saved = w.saved,
                                        !.args = [outer_node_ids |-> outer,
                                                  delete_default |-> delete_default,
                                                  cases |-> cases],
                                        !.ret = w.ret]
    /\ calls' = calls + 1
    /\ pc' = IF last'.raised THEN "stopped" ELSE "cases"
    /\ UNCHANGED <<nodes, plates, clusters, faces, meshed, res_nodes, trace, cfg, st7api>>

----------------------------------------------------------------------------
(* The helper functions of plate_geometry.py and notch_offset.py applied to *)
(* inputs of their own                                                       *)

\* I sections (D, B1, tf1, B2, tf2, tw), symmetric and not, and the section
\* D = 300, B = 150, tw = 7, tf = 10
Sections ==
    [D : {10, 12}, B1 : {4, 6}, tf1 : {1, 2}, B2 : {4, 6}, tf2 : {1, 2}, tw : {1}]
    \cup {[D |-> 300, B1 |-> 150, tf1 |-> 10, B2 |-> 150, tf2 |-> 10, tw |-> 7]}
\* anchors (half units) and the axis pairs of beams and columns
Anchors == {<<0, 0, 0>>, <<-80, 40, 6>>}
AxisPairs == {<<"y", "z">>, <<"x", "z">>}
\* templates handed to the copy functions, and the targets
Templates ==
    {SixNodesFromCentroidAxes(p, "x", "z", CalculateCentroidDistances(SecCol)[1],
                              CalculateCentroidDistances(SecCol)[2], SecCol) : p \in Anchors}
    \cup {SixNodesFromCentroidAxes(p, "y", "z", CalculateCentroidDistances(SecBeamUnsym)[1],
                                   CalculateCentroidDistances(SecBeamUnsym)[2], SecBeamUnsym) :
             p \in Anchors}
Targets == {-12, 0, 40}
\* the values of beam_thk (3), col_thk (3) and extra_thk (2); 0 for None;
\* some lists with negative entries
ThicknessValues ==
    [1..8 -> {0, 7, 10}]
    \cup {<<-7, 0, 0, -10, 0, 0, 0, 0>>, <<-7, 10, 7, 0, -10, 7, 0, 0>>,
          <<0, 0, 0, 0, 0, 0, 0, -3>>, <<-1, 7, 7, 7, 7, 7, 7, 3>>}

InitPure ==
    /\ InitFile(CHOOSE c \in MainCfgs : c.side = 1 /\ c.gusset_thk = 0)
    /\ pc = "pure"

\* one application of a function: its name, arguments and value
Applied(op, args, ret) ==
    /\ last' = [NoOp EXCEPT !.op = op, !.args = args, !.ret = ret]
    /\ pc' = "applied"
    /\ UNCHANGED <<nodes, plates, clusters, faces, meshed, res_nodes, log, calls,
                   trace, faulty, cfg, cases, st7api>>

(* Python floats: binary floating point in which every operation returns the
   representable value nearest to the exact result, ties to even.  A value
   is [m, e], standing for m * 2^e, with MantissaBits bits in m (53 in
   Python; the exponent is not bounded) *)
MantissaBits == 8

RECURSIVE Pow2(_)
Pow2(k) == IF k <= 0 THEN 1 ELSE 2 * Pow2(k - 1)
RECURSIVE BitLength(_)
BitLength(a) == IF a = 0 THEN 0 ELSE 1 + BitLength(a \div 2)
FloatZero == [m |-> 0, e |-> 0]

RECURSIVE FloatRound(_, _)
\* the float nearest to n * 2^e
FloatRound(n, e) ==
    IF n = 0 THEN FloatZero
    ELSE LET s == IF n > 0 THEN 1 ELSE -1
             a == Abs(n)
             len == BitLength(a)
             k == len - MantissaBits
         IN IF k > 0
            THEN LET q == a \div Pow2(k)
                     r == a % Pow2(k)
                     up == r > Pow2(k - 1) \/ (r = Pow2(k - 1) /\ q % 2 = 1)
                 IN FloatRound(s * (IF up THEN q + 1 ELSE q), e + k)
            ELSE [m |-> s * a * Pow2(-k), e |-> e + k]

\* x * y
FloatMul(x, y) == FloatRound(x.m * y.m, x.e + y.e)
\* x + y; an operand too small to reach the kept bits only decides the rounding
FloatAdd(x, y) ==
    IF x.m = 0 THEN y
    ELSE IF y.m = 0 THEN x
    ELSE LET hi == IF x.e >= y.e THEN x ELSE y
             lo == IF x.e >= y.e THEN y ELSE x
             d == hi.e - lo.e
             g == MantissaBits + 2
         IN IF d > g
            THEN FloatRound(hi.m * Pow2(g) + (IF lo.m > 0 THEN 1 ELSE -1), hi.e - g)
            ELSE FloatRound(hi.m * Pow2(d) + lo.m, lo.e)
\* x - y
FloatSub(x, y) == FloatAdd(x, [y EXCEPT !.m = -y.m])
\* x / y for y # 0
FloatDiv(x, y) ==
    IF x.m = 0 THEN FloatZero
    ELSE LET s == IF (x.m > 0) = (y.m > 0) THEN 1 ELSE -1
             g == MantissaBits + 2
             q == (Abs(x.m) * Pow2(g)) \div Abs(y.m)
             r == (Abs(x.m) * Pow2(g)) % Abs(y.m)
         IN FloatRound(s * (2 * q + (IF r = 0 THEN 0 ELSE 1)), x.e - y.e - g - 1)
\* x / 2.0
FloatHalf(x) == IF x.m = 0 THEN FloatZero ELSE [x EXCEPT !.e = @ - 1]
\* float(n) of an integer n
FloatOf(n) == FloatRound(n, 0)

\* Atot of _calculate_centroid_distances
SectionArea(d) ==
    FloatAdd(FloatAdd(FloatMul(d.B1, d.tf1),
                      FloatMul(FloatSub(FloatSub(d.D, d.tf1), d.tf2), d.tw)),
             FloatMul(d.B2, d.tf2))

\* _calculate_centroid_distances(D, B1, tf1, B2, tf2, tw) on floats:
\* (dist_c_to_ext_top, dist_c_to_ext_bot)
CalculateCentroidDistancesOfFloats(d) ==
    LET A1 == FloatMul(d.B1, d.tf1)
        y1 == FloatHalf(d.tf1)
        hw == FloatSub(FloatSub(d.D, d.tf1), d.tf2)
        Aw == FloatMul(hw, d.tw)
        yw == FloatAdd(d.tf1, FloatHalf(hw))
        A2 == FloatMul(d.B2, d.tf2)
        y2 == FloatSub(d.D, FloatHalf(d.tf2))
        Atot == FloatAdd(FloatAdd(A1, Aw), A2)
        yc == FloatDiv(FloatAdd(FloatAdd(FloatMul(A1, y1), FloatMul(Aw, yw)),
                                FloatMul(A2, y2)), Atot)
    IN IF Atot.m = 0 THEN <<FloatHalf(d.D), FloatHalf(d.D)>>
       ELSE <<FloatSub(d.D, yc), yc>>

\* sections given as floats: doubly symmetric ones, ones with unequal
\* flanges, and ones without area
FloatSection(D, B1, tf1, B2, tf2, tw) ==
    [D |-> FloatOf(D), B1 |-> FloatOf(B1), tf1 |-> FloatOf(tf1),
     B2 |-> FloatOf(B2), tf2 |-> FloatOf(tf2), tw |-> FloatOf(tw)]
FloatSections ==
    {FloatSection(D, B, tf, B, tf, tw) :
        D \in {300, 200, 270}, B \in {150, 100, 135}, tf \in {10, 11, 16}, tw \in {7, 6, 9}}
    \cup {FloatSection(D, 150, 10, B2, tf2, 7) : D \in {300, 200}, B2 \in {100, 150}, tf2 \in {10, 16}}
    \cup {FloatSection(D, B, tf, B, tf, 0) : D \in {300, 200}, B \in {0, 150}, tf \in {0, 10}}

ApplyCentroidDistances ==
    /\ pc = "pure"
    /\ \E d \in FloatSections :
          Applied("_calculate_centroid_distances", [d |-> d],
                  CalculateCentroidDistancesOfFloats(d))

RECURSIVE ISqrtBits(_, _, _)
\* the largest r + (bits of b) whose square does not exceed n
ISqrtBits(n, b, r) ==
    IF b = 0 THEN r
    ELSE ISqrtBits(n, b \div 2, IF (r + b) * (r + b) <= n THEN r + b ELSE r)
\* math.sqrt(x) for x > 0
FloatSqrt(x) ==
    LET m2 == IF x.e % 2 = 0 THEN x.m ELSE 2 * x.m
        e2 == IF x.e % 2 = 0 THEN x.e ELSE x.e - 1
        g == MantissaBits
        scaled == m2 * Pow2(2 * g)
        root == ISqrtBits(scaled, Pow2((3 * g + 1) \div 2), 0)
    IN FloatRound(2 * root + (IF root * root = scaled THEN 0 ELSE 1), (e2 \div 2) - g - 1)
FloatAbs(x) == [x EXCEPT !.m = Abs(@)]
\* x > y
FloatGreater(x, y) == FloatSub(x, y).m > 0

\* plate_sections.py: _dot, _cross, _unit on triples of floats
FDot(a, b) ==
    FloatAdd(FloatAdd(FloatMul(a[1], b[1]), FloatMul(a[2], b[2])), FloatMul(a[3], b[3]))
FCross(a, b) ==
    <<FloatSub(FloatMul(a[2], b[3]), FloatMul(a[3], b[2])),
      FloatSub(FloatMul(a[3], b[1]), FloatMul(a[1], b[3])),
      FloatSub(FloatMul(a[1], b[2]), FloatMul(a[2], b[1]))>>
\* n = math.sqrt(sum(c*c for c in v))
FNorm(v) ==
    LET n2 == FDot(v, v) IN IF n2.m = 0 THEN FloatZero ELSE FloatSqrt(n2)
\* _unit(v): [raised, v]; ValueError("vettore nullo") if n == 0
FUnit(v) ==
    LET n == FNorm(v)
    IN IF n.m = 0 THEN [raised |-> TRUE, v |-> <<>>]
       ELSE [raised |-> FALSE,
             v |-> <<FloatDiv(v[1], n), FloatDiv(v[2], n), FloatDiv(v[3], n)>>]

GlobalX == <<FloatOf(1), FloatZero, FloatZero>>
GlobalZ == <<FloatZero, FloatZero, FloatOf(1)>>
\* the literal 0.95
NearlyParallel == FloatDiv(FloatOf(95), FloatOf(100))

\* a reference that is global Z for every ex
ZrefAlwaysZ(ex) == GlobalZ
\* zref = (0,0,1); if abs(_dot(ex, zref)) > 0.95: zref = (1,0,0)
Zref(ex) ==
    IF FloatGreater(FloatAbs(FDot(ex, GlobalZ)), NearlyParallel) THEN GlobalX ELSE GlobalZ

\* the local frame of build_I_section_between on the end points p1, p2:
\* [raised, zref, ex, ey, ez]
LocalFrame(p1, p2) ==
    LET none == [raised |-> TRUE, zref |-> <<>>, ex |-> <<>>, ey |-> <<>>, ez |-> <<>>]
        ex == FUnit(<<FloatSub(p2[1], p1[1]), FloatSub(p2[2], p1[2]),
                      FloatSub(p2[3], p1[3])>>)
    IN IF ex.raised THEN none
       ELSE LET zref == Zref(ex.v)
                ey == FUnit(FCross(zref, ex.v))
            IN IF ey.raised THEN none
               ELSE LET ez == FUnit(FCross(ex.v, ey.v))
                    IN IF ez.raised THEN none
                       ELSE [raised |-> FALSE, zref |-> zref,
                             ex |-> ex.v, ey |-> ey.v, ez |-> ez.v]

\* end points of a line: integer coordinates, the second node one of the
\* offsets away from the first (none, along an axis, oblique, nearly along Z)
FramePoints == {<<0, 0, 0>>, <<3, -2, 5>>}
FrameOffsets == {<<dx, dy, dz>> : dx \in {-4, -1, 0, 1, 4}, dy \in {-4, -1, 0, 1, 4},
                                  dz \in {-4, -1, 0, 1, 4}}
FloatPoint(p) == <<FloatOf(p[1]), FloatOf(p[2]), FloatOf(p[3])>>

ApplyLocalFrame ==
    /\ pc = "pure"
    /\ \E p1 \in FramePoints, d \in FrameOffsets :
          \E w \in {LocalFrame(FloatPoint(p1),
                               FloatPoint(<<p1[1] + d[1], p1[2] + d[2], p1[3] + d[3]>>))} :
             /\ last' = [NoOp EXCEPT !.op = "build_I_section_between",
                                     !.args = [p1 |-> p1, d |-> d],
                                     !.raised = w.raised, !.ret = w]
             /\ pc' = "applied"
             /\ UNCHANGED <<nodes, plates, clusters, faces, meshed, res_nodes, log, calls,
                            trace, faulty, cfg, cases, st7api>>

\* _calculate_centroid_distances, then _six_nodes_from_centroid_axes, as the
\* generator calls them
\* node lists of step 16: the joint with the node numbers of a global model
\* (0: an entry without id)
NodeIdLists == {<<10, 11, 12, 13>>, <<1, 2, 3, 4>>, <<4, 3, 2, 1>>, <<0, 0, 0, 0>>,
                <<7, 0, 2, 9>>, <<101, 5, 6, 102>>}
WithIds(nl, ids) == [i \in 1..Len(nl) |-> [nl[i] EXCEPT !.id = ids[i]]]

ApplyCreateSt7WithNodes ==
    /\ pc = "pure"
    /\ \E side \in {-1, 1}, ids \in NodeIdLists, keep_ids \in BOOLEAN :
          Applied("create_st7_with_nodes",
                  [nodes |-> WithIds(JointNodes(side), ids), keep_ids |-> keep_ids],
                  CreateSt7WithNodes(WithIds(JointNodes(side), ids), keep_ids))

\* _calculate_centroid_distances, then _six_nodes_from_centroid_axes, as the
\* generator calls them
ApplySixNodes ==
    /\ pc = "pure"
    /\ \E d \in Sections, p \in Anchors, ax \in AxisPairs :
          \E cd \in {CalculateCentroidDistances(d)} :
             Applied("_six_nodes_from_centroid_axes",
                     [p |-> p, depth |-> ax[1], width |-> ax[2], d |-> d,
                      top2 |-> cd[1], bot2 |-> cd[2]],
                     SixNodesFromCentroidAxes(p, ax[1], ax[2], cd[1], cd[2], d))

ApplyCopyAlongY ==
    /\ pc = "pure"
    /\ \E pts \in Templates, t \in Targets :
          Applied("_copy_points_set_along_Y", [pts |-> pts, target |-> t],
                  CopyPointsSetAlongY(pts, t))

ApplyCopyAlongX ==
    /\ pc = "pure"
    /\ \E pts \in Templates, t \in Targets :
          Applied("_copy_points_set_along_X", [pts |-> pts, target |-> t],
                  CopyPointsSetAlongX(pts, t))

ApplyNotchOffset ==
    /\ pc = "pure"
    /\ \E thks \in ThicknessValues :
          Applied("calculate_notch_offset", [thks |-> thks], CalculateNotchOffset(thks))

----------------------------------------------------------------------------
(* Properties of the operations *)

IsGen == last.op = "create_midplane_nodes_for_members"
IsPlates == last.op = "create_plates_for_joint"
Distinct(ids) == \A i, j \in 1..Len(ids) : i # j => ids[i] # ids[j]
\* the plates emitted by the last operation
Emitted == {i \in 1..Len(last.done) : last.done[i].ok}
\* the calls of the last operation after which only the release of the
\* session is allowed
Cleanup == {"CloseFile", "Release"}

\* C1: the node ids written by the generator, and those of the six beam
\* nodes copied by create_plates_for_joint, are pairwise distinct and none of
\* them is an id of a node the model already had, whatever the ids of the
\* model are
C1_IdsFreshAndUnique ==
    (IsGen \/ IsPlates) =>
       /\ Distinct(last.ids)
       /\ \A i \in 1..Len(last.ids) : last.ids[i] \notin DOMAIN last.pre

\* C2: every plate emitted names exactly four node ids, pairwise distinct,
\* each a node of the model when the plate is emitted (the nodes the file had
\* and the copied beam station)
C2_PlatesHaveFourDistinctNodes ==
    IsPlates =>
       \A i \in Emitted :
          LET conn == last.done[i].conn
          IN /\ Len(conn) = 4
             /\ Distinct(conn)
             /\ Range(conn) \subseteq DOMAIN last.pre \cup Range(last.ids)

Incomplete(r) ==
    \/ \E g \in {"beam_nodes", "col_inf_nodes_base", "col_inf_nodes_yBeamMin",
                 "col_inf_nodes_yBeamMax", "col_sup_nodes_base"} :
          \/ g \notin DOMAIN r.groups
          \/ \E k \in (IF g = "beam_nodes" THEN BeamKeys ELSE GroupKeys) :
                k \notin DOMAIN r.groups[g] \/ Len(r.groups[g][k]) < 2
    \/ ~(LabelSet \subseteq DOMAIN r.coords)

IsColumnClusters == last.op = "create_column_clusters_XZ"
IsBeamCluster == last.op = "create_beam_link_cluster_YZ"
\* the axis on which the masters of a cluster share the slave's coordinate
GroupingAxis(plane) == IF plane = "YZ" THEN 1 ELSE 2
\* the nodes of db other than the slave within tol of the slave on axis ax
SameCoordinate(db, ax, slave, tol) ==
    {n \in DOMAIN db \ {slave} : Abs(db[n][ax] - db[slave][ax]) <= tol}

\* C4: the masters of every cluster created are exactly the nodes of the
\* model other than the slave whose coordinate on the grouping axis is within
\* the tolerance of the slave's, and the slave is not among them
C4_MastersExact ==
    (IsColumnClusters \/ IsBeamCluster) =>
       \A c \in last.made :
          /\ c.slave \notin c.masters
          /\ c.masters = SameCoordinate(last.pre, GroupingAxis(c.plane), c.slave,
                                        last.args.tol)

\* C5: in a run of create_column_clusters_XZ in which no API call fails,
\* every slave that has a master within the tolerance gets its cluster,
\* saved in the file, also when the other slave has none
C5_OtherClustersSaved ==
    (IsColumnClusters /\ \A i \in 1..Len(log) : log[i].ok) =>
       \A slave \in {NodeYMax(last.args.node_ids, last.pre),
                     NodeYMin(last.args.node_ids, last.pre)} :
          SameCoordinate(last.pre, 2, slave, last.args.tol) # {} =>
             \E c \in clusters : c.plane = "ZX" /\ c.slave = slave

\* C6: when a required group or label is missing from res_nodes, the call
\* raises, no plate creation is attempted and the file is not saved
C6_MissingGroupFails ==
    (IsPlates /\ Incomplete(last.args.res_nodes)) =>
       /\ last.raised /\ ~last.saved
       /\ last.done = <<>>
       /\ \A i \in 1..Len(log) : log[i].api \notin {"SetElementConnection", "SaveFile"}

\* a label lost after the session was opened and the beam station copied
C6_Witness ==
    /\ IsPlates /\ last.raised
    /\ ~GroupsMissing(last.args.res_nodes)
    /\ Incomplete(last.args.res_nodes)
    /\ \E i \in 1..Len(log) : log[i].api = "SetNodeUCS" /\ log[i].ok
    /\ plates = EmptyMap

\* C7: a failed API call ends the operation: the operation raises and after
\* the failed call it only releases the session
C7_FailurePropagates ==
    \A i \in 1..Len(log) :
       ~log[i].ok => /\ last.raised
                     /\ \A j \in (i + 1)..Len(log) : log[j].api \in Cleanup

----------------------------------------------------------------------------
(* Properties of the run of main.py *)

\* the record of a step in the run, and whether the step has been reached
Reached(step) == \E i \in 1..Len(trace) : trace[i].step = step
Entry(step) == trace[CHOOSE i \in 1..Len(trace) : trace[i].step = step]
\* the call of api was made in the step and returned 0
Returned(step, api) ==
    Reached(step) /\ \E i \in 1..Len(Entry(step).lg) :
                        Entry(step).lg[i].api = api /\ Entry(step).lg[i].ok
StepsInOrder == <<"step20", "step21", "step22", "step23", "step24", "step25", "step26">>

FirstCall(lg, api) ==
    IF \E i \in 1..Len(lg) : lg[i].api = api
    THEN Min({i \in 1..Len(lg) : lg[i].api = api}) ELSE 0
\* every call of lg before index k returned 0
AllOkBefore(lg, k) == \A i \in 1..(k - 1) : lg[i].ok

\* C10: the plates are converted to faces only after the clean-mesh step
\* ended without error and returned a positive size; the faces are meshed
\* only after the conversion was made, saved and closed without error; the
\* faces are purged only after the automesh call returned without error
C10_FinalizerOrder ==
    Reached("step25") =>
       LET lg == Entry("step25").lg
           conv == FirstCall(lg, "FaceFromPlate")
           mesh == FirstCall(lg, "SurfaceMesh")
           purge == Min({FirstCall(lg, "InvalidateGeometryFace"),
                         FirstCall(lg, "DeleteInvalidGeometry")})
       IN /\ lg # <<>> =>
               /\ Reached("step24")
               /\ ~Entry("step24").raised
               /\ Entry("step24").ret # None /\ Entry("step24").ret.num > 0
               /\ Returned("step24", "CleanMesh")
               /\ \A i \in 1..Len(Entry("step24").lg) : Entry("step24").lg[i].ok
          /\ mesh # 0 =>
               /\ conv # 0 /\ conv < mesh
               /\ AllOkBefore(lg, mesh)
               /\ \E i \in conv..mesh : lg[i].api = "SaveFile"
               /\ \E i \in conv..mesh : lg[i].api = "CloseFile"
          /\ FirstCall(lg, "DeleteInvalidGeometry") # 0 =>
               /\ mesh # 0 /\ mesh < FirstCall(lg, "DeleteInvalidGeometry")
               /\ AllOkBefore(lg, FirstCall(lg, "DeleteInvalidGeometry"))
          /\ FirstCall(lg, "InvalidateGeometryFace") # 0 =>
               /\ mesh # 0 /\ mesh < FirstCall(lg, "InvalidateGeometryFace")
               /\ AllOkBefore(lg, FirstCall(lg, "InvalidateGeometryFace"))

C10_Witness ==
    /\ Reached("step25")
    /\ ~Entry("step25").raised
    /\ Returned("step24", "CleanMesh")
    /\ Returned("step25", "FaceFromPlate")
    /\ Returned("step25", "SurfaceMesh")
    /\ Returned("step25", "DeleteInvalidGeometry")
    /\ plates = EmptyMap /\ faces = 0 /\ meshed > 0

\* the automesh of step 25 ran: St7SurfaceMesh returned and the counts were read
Automeshed ==
    /\ Reached("step25")
    /\ Returned("step25", "SurfaceMesh")
    /\ NrOk(Entry("step25").lg, "GetGlobalIntegerValue") = 5
\* the faces the automesh reported as partially meshed or not meshed
NotFullyMeshed == Entry("step25").ret.counts[2] + Entry("step25").ret.counts[3]

\* C11: after run_faces_automesh the faces invalidated and deleted are at most
\* those the automesh reported as meshed, so that no face reported as
\* partially meshed or not meshed has been deleted
C11_OnlyMeshedFacesPurged ==
    Automeshed =>
       Entry("step25").ret.purged + NotFullyMeshed <= Entry("step25").ret.nfaces

\* C12: when the automesh leaves faces partially meshed or not meshed, the
\* meshing operation raises no error, the run goes on, and the three counts
\* are what the operation returns to the step that called it
C12_CountsReturned ==
    (Automeshed /\ NotFullyMeshed > 0
        /\ \A i \in 1..Len(Entry("step25").lg) : Entry("step25").lg[i].ok) =>
       /\ ~Entry("step25").raised
       /\ Entry("step25").ret.returned = Entry("step25").ret.counts

\* the calls of api in lg, whatever they returned
Calls(lg, api) == {i \in 1..Len(lg) : lg[i].api = api}
\* the sessions of lg: the calls from one Init up to the next
SessionsOf(lg) ==
    {SubSeq(lg, i, Min({j - 1 : j \in {k \in Calls(lg, "Init") : k > i}} \cup {Len(lg)})) :
        i \in Calls(lg, "Init")}
\* lg is one session: Init first and only once; when Init returned 0 the API
\* is released exactly once, by the last call; a file that was opened is
\* closed exactly once, right before the release, and no file is opened twice
OneSession(lg) ==
    /\ Calls(lg, "Init") = {1}
    /\ lg[1].ok =>
          /\ Calls(lg, "Release") = {Len(lg)}
          /\ Calls(lg, "OpenFile") \subseteq {2}
          /\ (Len(lg) >= 2 /\ lg[2].api = "OpenFile" /\ lg[2].ok) =>
                Calls(lg, "CloseFile") = {Len(lg) - 1}
          /\ Cardinality(Calls(lg, "CloseFile")) <= 1
    /\ ~lg[1].ok => Len(lg) = 1
\* every call of lg belongs to a session, and each session is well formed
Sessions(lg) ==
    /\ lg # <<>> => lg[1].api = "Init"
    /\ \A ses \in SessionsOf(lg) : OneSession(ses)
\* the logs of the operations run so far: that of the operation called last
\* and those of the steps of main.py that call the operations in src/
OperationLogs ==
    {log} \cup {trace[i].lg : i \in {k \in 1..Len(trace) :
                                       trace[k].step \in {"step20", "step21", "step24", "step25"}}}

\* C13: every operation on the local model holds the file as one session:
\* after Init returned 0, on the normal path and on every failing one, an
\* opened file is closed once and the API released once, as its last call,
\* and no Init or OpenFile is issued before that release
C13_OneSessionPerOperation == \A lg \in OperationLogs : Sessions(lg)

\* a step in which the conversion and the automesh each held a session and
\* the second failed after the mesh was made: both sessions closed and released
C13_Witness ==
    /\ Reached("step25") /\ Entry("step25").raised
    /\ Cardinality(SessionsOf(Entry("step25").lg)) = 2
    /\ NrOk(Entry("step25").lg, "SurfaceMesh") = 1
    /\ NrOk(Entry("step25").lg, "CloseFile") = 2
    /\ NrOk(Entry("step25").lg, "Release") = 2


(* C18: every station the generator produced (beam, lower-column base, lower
   column at yBeamMin and at yBeamMax, upper-column base) and the copied beam
   station of create_plates_for_joint has exactly the six labels web_bot,
   web_top, top_left, top_right, bot_left, bot_right, on six pairwise
   distinct node ids.  A generated group stores them as three lists of two
   ids; the labels are those under which create_plates_for_joint reads them *)
StationIds(st) == {st[f] : f \in DOMAIN st}
\* the ids that station j put in the lists of group g, two in each list
StationOf(g, j) == UNION {{g[k][2 * j - 1], g[k][2 * j]} : k \in DOMAIN g}
SixDistinct(g, keys, st) ==
    /\ DOMAIN g = keys
    /\ \E n \in 1..2 :
          /\ \A k \in keys : Len(g[k]) = 2 * n
          /\ \A j \in 1..n : Cardinality(StationOf(g, j)) = 6 /\ 0 \notin StationOf(g, j)
    /\ DOMAIN st = {"wb", "wt", "tl", "tr", "bl", "br"}
    /\ Cardinality(StationIds(st)) = 6
    /\ 0 \notin StationIds(st)
GroupSixDistinct(name, g) ==
    IF name = "beam_nodes" THEN SixDistinct(g, BeamKeys, BeamSt(g))
    ELSE SixDistinct(g, GroupKeys, ColSt(g))
Produced(groups) == {name \in DOMAIN groups : Truthy(groups[name])}
C18_SixLabelsSixIds ==
    /\ (IsGen /\ ~last.raised) =>
          \A name \in Produced(last.ret.groups) :
             GroupSixDistinct(name, last.ret.groups[name])
    /\ (IsPlates /\ last.queued # <<>>) =>
          /\ DOMAIN last.args.res_nodes.coords = LabelSet
          /\ Len(last.ids) = 6
          /\ Cardinality(Range(last.ids)) = 6

C18_Witness ==
    /\ IsGen /\ ~last.raised /\ last.saved
    /\ Cardinality(Produced(last.ret.groups)) = 5
    /\ Len(last.ids) = 30


(* C19: exactly four stiffener patches, all on the two panel-zone boundary
   stations (lower column at yBeamMin and at yBeamMax), are appended after
   the 18 segment patches if and only if the stiffener property
   "t_fazzoletti" is configured; when it is not, none is appended, a
   diagnostic is printed, the call does not fail for that and all 18 segment
   patches are still created *)
PanelStationIds(r) ==
    StationIds(ColSt(r.groups["col_inf_nodes_yBeamMin"]))
    \cup StationIds(ColSt(r.groups["col_inf_nodes_yBeamMax"]))
StiffenerAt(q) == {i \in 1..Len(q) : q[i].prop = "t_fazzoletti"}
AllCallsOk == \A i \in 1..Len(log) : log[i].ok
C19_StiffenersIffConfigured ==
    (IsPlates /\ last.queued # <<>>) =>
       LET q == last.queued
           configured == "t_fazzoletti" \in last.args.props
       IN /\ configured =>
               /\ Len(q) = 22
               /\ StiffenerAt(q) = 19..22
               /\ \A i \in 19..22 : Range(q[i].conn) \subseteq PanelStationIds(last.args.res_nodes)
               /\ last.printed = {}
          /\ ~configured =>
               /\ Len(q) = 18
               /\ StiffenerAt(q) = {}
               /\ last.printed # {}
               /\ AllCallsOk =>
                     /\ ~last.raised /\ last.saved
                     /\ Len(last.done) = 18
                     /\ \A i \in 1..18 : last.done[i].ok /\ last.done[i].conn = q[i].conn

C19_Witness ==
    /\ IsPlates /\ ~last.raised /\ last.saved
    /\ "t_fazzoletti" \in last.args.props
    /\ Len(last.queued) = 22
    /\ Len(last.done) = 22 /\ \A i \in 1..22 : last.done[i].ok


(* C20: in every segment (lower column, panel zone, upper column, beam) each
   web and flange patch is a loop over two nodes of one bounding station and
   the same-labelled two nodes of the other, and no corner of a segment patch
   lies in the interior of an edge of another segment patch (no
   T-intersections): patches that meet share a full edge *)
Sub3(a, b) == <<a[1] - b[1], a[2] - b[2], a[3] - b[3]>>
Dot3(a, b) == a[1] * b[1] + a[2] * b[2] + a[3] * b[3]
Cross3(a, b) == <<a[2] * b[3] - a[3] * b[2], a[3] * b[1] - a[1] * b[3],
                  a[1] * b[2] - a[2] * b[1]>>
\* the point c lies on the segment from a to b, away from both ends
StrictlyInside(c, a, b) ==
    /\ Cross3(Sub3(c, a), Sub3(b, a)) = <<0, 0, 0>>
    /\ Dot3(Sub3(c, a), Sub3(b, a)) > 0
    /\ Dot3(Sub3(c, a), Sub3(b, a)) < Dot3(Sub3(b, a), Sub3(b, a))
Edges(conn) == {<<conn[i], conn[(i % 4) + 1]>> : i \in 1..4}
\* a corner of patch p in the interior of an edge of patch q
TJunction(db, p, q) ==
    \E c \in Range(p.conn), e \in Edges(q.conn) :
       StrictlyInside(db[c], db[e[1]], db[e[2]])
SegmentPatches(q) == SubSeq(q, 1, 18)
\* the plates were built from the groups the generator returned, and saved
BuiltFromGenerated ==
    /\ IsPlates /\ ~last.raised /\ last.saved
    /\ last.args.res_nodes = res_nodes
    /\ Len(last.queued) >= 18
C20_NoTIntersections ==
    BuiltFromGenerated =>
       LET seg == SegmentPatches(last.queued)
       IN /\ \A i \in 1..18 : Cardinality(Range(seg[i].conn)) = 4
          /\ \A i, j \in 1..18 : i # j => ~TJunction(nodes, seg[i], seg[j])


(* C21: the copied beam station of create_plates_for_joint lies on the
   mid-plane of the column flange nearest to the beam: each copied node has
   the X of the column flange whose X is closest to the X of the original
   beam station, on whichever side of the column the beam is, and the Y and Z
   of the original beam node of the same label *)
Dist(a, b) == IF a >= b THEN a - b ELSE b - a
\* X of the two flange mid-planes of the lower column at yBeamMax
FlangeXs(db, r) ==
    LET st == ColSt(r.groups["col_inf_nodes_yBeamMax"])
    IN {db[st.wb][1], db[st.wt][1]}
NearestFlangeX(db, r, beam_x) ==
    CHOOSE x \in FlangeXs(db, r) : \A y \in FlangeXs(db, r) : Dist(x, beam_x) <= Dist(y, beam_x)
C21_CopiedBeamOnNearestFlange ==
    BuiltFromGenerated =>
       \A i \in 1..6 :
          LET orig == last.args.res_nodes.coords[Labels[i]]
              copy == nodes[last.ids[i]]
          IN /\ copy[2] = orig[2] /\ copy[3] = orig[3]
             /\ copy[1] = NearestFlangeX(last.pre, last.args.res_nodes, orig[1])


(* C22: for one joint a run of main.py in which no call fails creates
   exactly three rigid-link clusters: one in the YZ plane whose slave is the
   beam-end node and whose masters are all other nodes with its X, and two in
   the XZ plane whose slaves are the lower and the upper column-end node and
   whose masters are all other nodes with the respective Y *)
RunWithoutError ==
    \A i \in 1..Len(trace) :
       ~trace[i].raised /\ \A k \in 1..Len(trace[i].lg) : trace[i].lg[k].ok
Sharing(ax, slave) == {n \in DOMAIN nodes \ {slave} : nodes[n][ax] = nodes[slave][ax]}
----------------------------------------------------------------------------
(* Properties of the helper functions *)

IsNotch == last.op = "calculate_notch_offset"
\* the configuration entries with a positive thickness
PositiveAt(thks) == {i \in 1..Len(thks) : thks[i] > 0}
RECURSIVE SumAt(_, _)
SumAt(thks, I) == IF I = {} THEN 0 ELSE LET i == CHOOSE i \in I : TRUE
                                        IN thks[i] + SumAt(thks, I \ {i})

\* C14: calculate_notch_offset returns 0.5 * mean + 1.5 * max + 0.7 * min over
\* the positive configured thicknesses, each configuration entry counted once
\* in the mean (so 24.4 for the entries 7, 10, 10)
C14_OffsetCountsEachEntry ==
    (IsNotch /\ PositiveAt(last.args.thks) # {}) =>
       LET thks == last.args.thks
           I == PositiveAt(thks)
           n == Cardinality(I)
           T == {thks[i] : i \in I}
       IN last.ret.num * (10 * n) =
             (5 * SumAt(thks, I) + 15 * n * Max(T) + 7 * n * Min(T)) * last.ret.den

IsSixNodes == last.op = "_six_nodes_from_centroid_axes"
\* pt is p moved by dd along the depth axis and by dw along the width axis
\* of the application, and by nothing along the third
Moved(p, pt, dd, dw) ==
    LET di == AxisIdx(last.args.depth)
        wi == AxisIdx(last.args.width)
    IN \A k \in 1..3 :
          pt[k] - p[k] = (IF k = di THEN dd ELSE 0) + (IF k = wi THEN dw ELSE 0)

IsScenarioSection ==
    IsSixNodes /\ last.args.d = [D |-> 300, B1 |-> 150, tf1 |-> 10, B2 |-> 150,
                                  tf2 |-> 10, tw |-> 7]
\* the distance from a to b along the axis ax, in units (coordinates are doubled)
AlongTwice(a, b, ax) == last.ret[b][AxisIdx(ax)] - last.ret[a][AxisIdx(ax)]

\* C16 as stated: for that section web_bot and web_top are 280 apart along the
\* depth axis and the two corners of each flange 150 apart along the width axis
C16_WebEnds280Apart ==
    IsScenarioSection =>
       /\ AlongTwice("web_bot", "web_top", last.args.depth) = 2 * 280
       /\ AlongTwice("top_left", "top_right", last.args.width) = 2 * 150
       /\ AlongTwice("bot_left", "bot_right", last.args.width) = 2 * 150

\* C16 amended: for that section web_bot and web_top are 290 apart along the
\* depth axis (D - tf1/2 - tf2/2, the mid-planes of the flanges) and the two
\* corners of each flange 150 apart along the width axis
C16_WebEnds290Apart ==
    IsScenarioSection =>
       /\ AlongTwice("web_bot", "web_top", last.args.depth) = 2 * 290
       /\ AlongTwice("top_left", "top_right", last.args.width) = 2 * 150
       /\ AlongTwice("bot_left", "bot_right", last.args.width) = 2 * 150

C16_Witness ==
    /\ IsScenarioSection /\ last.args.depth = "y"
    /\ last.ret["web_top"][2] - last.ret["web_bot"][2] = 580

IsCopy == last.op \in {"_copy_points_set_along_Y", "_copy_points_set_along_X"}
\* the coordinate the copy function targets
TargetIdx == IF last.op = "_copy_points_set_along_Y" THEN 2 ELSE 1

\* C17: the copy of a template to a target value along Y or X has the labels
\* of the template; the targeted coordinate of every point is the requested
\* value and its two other coordinates are those of the template
C17_CopyKeepsOtherCoordinates ==
    IsCopy =>
       /\ DOMAIN last.ret = DOMAIN last.args.pts
       /\ DOMAIN last.ret = LabelSet
       /\ \A lab \in DOMAIN last.ret :
             \A k \in 1..3 :
                last.ret[lab][k] = IF k = TargetIdx THEN last.args.target
                                   ELSE last.args.pts[lab][k]

\* a copy along Y that moved every point of the template
C17_Witness ==
    /\ last.op = "_copy_points_set_along_Y"
    /\ \A lab \in LabelSet : last.args.pts[lab][2] # last.args.target
    /\ \E lab \in LabelSet : last.args.pts[lab][1] # last.args.target

----------------------------------------------------------------------------

----------------------------------------------------------------------------
(* Steps 24 and 25 of main.py without a positive thickness *)

\* the thicknesses handed to step 24, and the positive ones among them
Step24Thicknesses == Thicknesses(MainGenArgs(cfg), Extra(cfg))
PositiveOnes(thks) == {thks[i] : i \in {j \in 1..Len(thks) : thks[j] > 0}}
\* 0.5 * mean + 1.5 * max + 0.7 * min of the values of S, as a fraction
OffsetOver(S) ==
    [num |-> 5 * SumOf(S) + (15 * Max(S) + 7 * Min(S)) * Cardinality(S),
     den |-> 10 * Cardinality(S)]

\* C30: the thicknesses that are None or not positive do not enter the
\* offset; when none is positive, run_notch_offset_calculation_and_clean_mesh
\* returns None without any API call (no Init, no OpenFile, no CleanMesh), and
\* step 25 then makes no API call either: no plate becomes a face and nothing
\* is meshed
C30_NoThicknessNoMesh ==
    /\ last.op = "calculate_notch_offset" =>
          LET pos == PositiveOnes(last.args.thks)
          IN last.ret = IF pos = {} THEN [num |-> 0, den |-> 1] ELSE OffsetOver(pos)
    /\ Reached("step24") =>
       LET e24 == Entry("step24")
           pos == PositiveOnes(Step24Thicknesses)
       IN /\ pos = {} =>
               /\ e24.lg = <<>> /\ ~e24.raised /\ e24.ret = None
               /\ Reached("step25") =>
                     /\ Entry("step25").lg = <<>>
                     /\ Entry("step25").raised
                     /\ faces = 0 /\ meshed = 0
          /\ (pos # {} /\ e24.ret # None) => e24.ret = OffsetOver(pos)
          /\ pos # {} => e24.lg # <<>> /\ e24.lg[1].api = "Init"

\* a run without a positive thickness that has passed step 25 with its plates
C30_Witness ==
    /\ Reached("step25")
    /\ PositiveOnes(Step24Thicknesses) = {}
    /\ plates # EmptyMap
    /\ Entry("step21").lg # <<>> /\ ~Entry("step21").raised

----------------------------------------------------------------------------
(* The node numbers of create_st7_with_nodes *)

IsCreateFile == last.op = "create_st7_with_nodes"
\* base_node_ids followed by the intermediate ids, branch by branch
ReturnedIds(out) ==
    out.base_node_ids \o out.intermediate_ids_by_branch[1]
                      \o out.intermediate_ids_by_branch[2]
                      \o out.intermediate_ids_by_branch[3]

\* C28: with keep_ids or without, the ids returned in base_node_ids and
\* intermediate_ids_by_branch are pairwise distinct; without keep_ids the N
\* base ids are 1..N in input order and the intermediate ids go on from N+1,
\* branch by branch
C28_ReturnedIdsDistinct ==
    IsCreateFile =>
       /\ Distinct(ReturnedIds(last.ret))
       /\ ~last.args.keep_ids =>
             ReturnedIds(last.ret) = [i \in 1..(Len(last.args.nodes) + 3) |-> i]

----------------------------------------------------------------------------
(* The beam patches of create_plates_for_joint *)

BeamPatches(q) == SubSeq(q, 16, 18)
\* points p and q differ in X at most
SameYZ(p, q) == p[2] = q[2] /\ p[3] = q[3]

\* C27: however many beam stations the generator was given, every beam patch
\* [o1, o2, c2, c1] joins two original beam nodes to the copies of the same
\* labels, and each copy has the Y and Z of its original
C27_BeamPatchNodesAligned ==
    (BuiltFromGenerated /\ Len(last.queued) >= 18) =>
       \A i \in 1..3 :
          LET conn == BeamPatches(last.queued)[i].conn
          IN /\ SameYZ(nodes[conn[1]], nodes[conn[4]])
             /\ SameYZ(nodes[conn[2]], nodes[conn[3]])

----------------------------------------------------------------------------
(* The plate numbers of create_plates_for_joint *)

Accepted(done) == {i \in 1..Len(done) : done[i].ok}

\* C29: the plates created get consecutive ids from (number of plates before
\* the call) + 1: a refused creation does not consume its id, which the next
\* attempt takes, and is not counted, so created_count is the number of
\* successful creations and the ids used are a range without gaps
C29_PlateIdsConsecutive ==
    [][(last'.op = "create_plates_for_joint" /\ last'.done # <<>>) =>
          LET before == Cardinality(DOMAIN plates)
              done == last'.done
          IN /\ done[1].id = before + 1
             /\ \A i \in 1..(Len(done) - 1) :
                   done[i + 1].id = IF done[i].ok THEN done[i].id + 1 ELSE done[i].id
             /\ {done[i].id : i \in Accepted(done)}
                   = (before + 1)..(before + Cardinality(Accepted(done)))
             /\ last'.ret = Cardinality(Accepted(done))
             /\ last'.saved =>
                   Cardinality(DOMAIN plates') = before + last'.ret]_vars

\* a call on a file that has plates already, with a refused plate between
\* two accepted ones
C29_Witness ==
    /\ IsPlates /\ last.saved
    /\ last.done[1].id > 1
    /\ \E i \in 2..(Len(last.done) - 1) : ~last.done[i].ok /\ last.done[i + 1].ok
    /\ Cardinality(DOMAIN plates) > last.ret

----------------------------------------------------------------------------
(* What a failing invocation leaves in the stored file *)

NodeOrClusterOp ==
    {"create_midplane_nodes_for_members", "create_column_clusters_XZ",
     "create_beam_link_cluster_YZ"}
SaveFileCalled(lg) == \E i \in 1..Len(lg) : lg[i].api = "SaveFile"
SaveFileReturned(lg) == \E i \in 1..Len(lg) : lg[i].api = "SaveFile" /\ lg[i].ok
FailedCalls(lg) == {lg[i].api : i \in {j \in 1..Len(lg) : ~lg[j].ok}}
\* a plate creation of the invocation was refused
PlateRefused(op) == op.op = "create_plates_for_joint" /\ \E i \in 1..Len(op.done) : ~op.done[i].ok
\* the plates of the loop that were accepted are in the file pl
AcceptedStored(op, pl) ==
    \A i \in 1..Len(op.done) :
       op.done[i].ok => /\ op.done[i].id \in DOMAIN pl
                        /\ pl[op.done[i].id] = [prop |-> op.done[i].prop, conn |-> op.done[i].conn]
\* a refused plate creation does not stop the loop nor the save: every plate
\* of the queue is attempted, St7SaveFile is called, and when it returns the
\* accepted plates are in the file
RefusedPlateStillSaves ==
    PlateRefused(last') =>
       /\ Len(last'.done) = Len(last'.queued)
       /\ SaveFileCalled(log')
       /\ SaveFileReturned(log') => AcceptedStored(last', plates')

\* C26 as stated: when create_midplane_nodes_for_members,
\* create_column_clusters_XZ or create_beam_link_cluster_YZ raises, SaveFile
\* has not been called and the stored nodes and clusters are those from before
\* the invocation; a refused plate creation in create_plates_for_joint does
\* not prevent the save, and the accepted plates are stored
C26_RaiseMeansNothingStored ==
    [][/\ (last'.op \in NodeOrClusterOp /\ last'.raised) =>
             /\ ~SaveFileCalled(log')
             /\ nodes' = nodes /\ clusters' = clusters
       /\ RefusedPlateStillSaves]_vars

\* C26 (amended): when one of the three operations raises before St7SaveFile
\* has returned, the stored nodes and clusters are those from before the
\* invocation; once St7SaveFile has returned all its nodes or clusters are
\* stored, and the invocation still raises when St7CloseFile fails; a refused plate creation does not prevent the save, and the
\* accepted plates are stored
C26_RaiseBeforeSaveStoresNothing ==
    [][/\ last'.op \in NodeOrClusterOp =>
             /\ (last'.raised /\ ~SaveFileReturned(log')) =>
                   nodes' = nodes /\ clusters' = clusters
             /\ (last'.raised /\ SaveFileReturned(log')) =>
                   "CloseFile" \in FailedCalls(log')
             /\ SaveFileReturned(log') =>
                   /\ \A i \in 1..Len(last'.ids) : last'.ids[i] \in DOMAIN nodes'
                   /\ last'.made \subseteq clusters'
       /\ RefusedPlateStillSaves]_vars

\* the generator wrote all its nodes and saved them, and St7CloseFile failed
C26_Witness ==
    /\ last.op = "create_midplane_nodes_for_members" /\ last.raised
    /\ SaveFileReturned(log) /\ "CloseFile" \in FailedCalls(log)
    /\ Len(last.ids) = 30 /\ nodes # last.pre

----------------------------------------------------------------------------
(* Properties of create_unit_disp_freedom_cases *)

IsCases == last.op = "create_unit_disp_freedom_cases"
NineNames(outer) == {CaseName(outer[i], d) : i \in 1..Len(outer), d \in Range(Dofs)}
NumbersOf(fc, name) == {i \in 1..Len(fc) : fc[i].name = name}
\* the operation was given three nodes and ended with the file saved
CasesSaved == IsCases /\ ~last.raised /\ last.saved /\ Len(last.args.outer_node_ids) = 3
\* the nine cases are in the file, once each, with only the named DOF of the
\* target node prescribed
NineCasesLeft ==
    \A name \in NineNames(last.args.outer_node_ids) :
       /\ Cardinality(NumbersOf(cases, name)) = 1
       /\ \A i \in NumbersOf(cases, name) : cases[i].fixed = {<<name.node, name.dof>>}
\* cases that existed by name are reused: the call adds only the missing ones
OnlyMissingAdded ==
    Len(cases) <= Len(last.args.cases)
                  + Cardinality({name \in NineNames(last.args.outer_node_ids) :
                                    NumbersOf(last.args.cases, name) = {}})
\* the first case of the file is removed only if it is not one of the nine
\* and delete_default was asked
FirstCaseKept ==
    LET first == last.args.cases[1].name
    IN (first \in NineNames(last.args.outer_node_ids) \/ ~last.args.delete_default)
          => NumbersOf(cases, first) # {}
\* every returned (name, number) designates the case of that name in the file
ReturnedNumbersDesignate ==
    /\ DOMAIN last.ret = NineNames(last.args.outer_node_ids)
    /\ \A name \in DOMAIN last.ret : last.ret[name] \in NumbersOf(cases, name)

(* C25: create_unit_disp_freedom_cases requires exactly 3 peripheral nodes
   and leaves the model with the 9 freedom cases node<ID>_DX, _DY, _DZ,
   reused by name when they exist; in each of them only the named DOF of the
   target node is prescribed and every other DOF of every node is free; the
   default case is deleted only if it is not one of the nine; and every
   (name, number) pair returned designates the case of that name in the
   saved model *)
C25_NineUnitCases ==
    /\ (IsCases /\ Len(last.args.outer_node_ids) # 3) =>
          last.raised /\ cases = last.args.cases
    /\ CasesSaved =>
          /\ NineCasesLeft
          /\ OnlyMissingAdded
          /\ FirstCaseKept
          /\ ReturnedNumbersDesignate

----------------------------------------------------------------------------

(* C23: for every section with tf1 = tf2 and B1 = B2 the centroid resolver
   returns exactly (D/2, D/2), and it returns (D/2, D/2) as well when the
   total area is zero *)
IsCentroid == last.op = "_calculate_centroid_distances"
DoublySymmetric(d) == d.tf1 = d.tf2 /\ d.B1 = d.B2
C23_SymmetricCentroidAtHalfDepth ==
    (IsCentroid /\ (DoublySymmetric(last.args.d) \/ SectionArea(last.args.d).m = 0)) =>
       last.ret = <<FloatHalf(last.args.d.D), FloatHalf(last.args.d.D)>>

(* C24: for two distinct end points P0, P1 the local frame is
   ex = unit(P1 - P0), ey = unit(ref x ex), ez = unit(ex x ey), where ref is
   global Z unless ex is nearly parallel to Z (more than 0.95 of its length
   along Z), in which case it is global X; the three vectors are pairwise
   orthogonal and of unit length, up to the rounding of the arithmetic; for
   P0 = P1 an error is raised and no frame is produced *)
IsFrame == last.op = "build_I_section_between"
\* |x| is at most 2^3 rounding units of 1
Negligible(x) == ~FloatGreater(FloatAbs(x), [m |-> Pow2(MantissaBits - 1), e |-> 4 - 2 * MantissaBits])
UnitLength(v) == Negligible(FloatSub(FDot(v, v), FloatOf(1)))
\* the offset d has more than 0.95 of its length along Z
MostlyAlongZ(d) == 10000 * d[3] * d[3] > 9025 * Dot3(d, d)
C24_LocalFrame ==
    IsFrame =>
       LET d == last.args.d
           f == last.ret
       IN /\ last.raised <=> d = <<0, 0, 0>>
          /\ ~last.raised =>
                /\ f.zref = (IF MostlyAlongZ(d) THEN GlobalX ELSE GlobalZ)
                /\ f.ex = FUnit(FloatPoint(d)).v
                /\ f.ey = FUnit(FCross(f.zref, f.ex)).v
                /\ f.ez = FUnit(FCross(f.ex, f.ey)).v
                /\ UnitLength(f.ex) /\ UnitLength(f.ey) /\ UnitLength(f.ez)
                /\ Negligible(FDot(f.ex, f.ey))
                /\ Negligible(FDot(f.ey, f.ez))
                /\ Negligible(FDot(f.ez, f.ex))

C24_Witness ==
    /\ IsFrame /\ ~last.raised
    /\ last.args.d = <<1, 0, 4>>
    /\ last.ret.zref = GlobalX

Next ==
    \/ CallMidplaneNodes
    \/ CallPlates
    \/ CallColumnClusters
    \/ CallBeamCluster

Spec == Init /\ [][Next]_vars

NextMain ==
    \/ Step20
    \/ Step21
    \/ Step22
    \/ Step23
    \/ Step24
    \/ Step25
    \/ Step26

SpecMain == InitMain /\ [][NextMain]_vars

\* the operations called directly and the run of main.py
InitAll == Init \/ InitMain
NextAll == Next \/ NextMain
SpecAll == InitAll /\ [][NextAll]_vars

\* the helper functions on their own
NextPure ==
    \/ ApplySixNodes
    \/ ApplyCopyAlongY
    \/ ApplyCopyAlongX
    \/ ApplyNotchOffset
    \/ ApplyCentroidDistances
    \/ ApplyLocalFrame
    \/ ApplyCreateSt7WithNodes

SpecPure == InitPure /\ [][NextPure]_vars

NextCases == CallFreedomCases

\* create_plates_for_joint called again and again on the file of step 20
NextPlates == CallPlates

SpecPlates == InitPlates /\ [][NextPlates]_vars

\* the run of main.py, and calculate_notch_offset applied on its own
InitNotch == InitMain \/ InitPure
NextNotch == NextMain \/ ApplyNotchOffset
SpecNotch == InitNotch /\ [][NextNotch]_vars

SpecCases == InitCases /\ [][NextCases]_vars

====
